---- MODULE Spec2Model ----
(***************************************************************************)
(* A model of the DCKP heuristic solver (DCKP-Matheuristics): the instance *)
(* loader and its conflict graph, the Solution aggregate maintenance, the  *)
(* Validator, the greedy and GRASP constructors, and the Hill Climbing and *)
(* VND local searches.                                                     *)
(*                                                                         *)
(* Items are 0-based, as inside the program; an instance file uses 1-based *)
(* indices.  Scores, which the program holds as doubles, are kept as exact *)
(* fractions <<numerator, denominator>> and compared by cross              *)
(* multiplication.  Wall-clock time (computation_time) is not modelled.    *)
(***************************************************************************)
EXTENDS Integers, Sequences, FiniteSets, TLC

VARIABLES
    file,            \* the instance file handed to readFromFile (the input)
    n_items,         \* DCKPInstance::n_items
    capacity,        \* DCKPInstance::capacity
    profits,         \* DCKPInstance::profits, a function on 0..n_items-1
    weights,         \* DCKPInstance::weights, a function on 0..n_items-1
    conflicts,       \* DCKPInstance::conflicts, the list of 0-based pairs
    conflict_graph,  \* DCKPInstance::conflict_graph, item -> adjacency list
    load_result,     \* "true" or "false" as readFromFile returned, "none" before
    pc,              \* where the driver is
    sol,             \* the Solution object being built, changed or searched from
    start_sol,       \* the Solution the caller started from
    hist,            \* the last two addItem/removeItem calls, each with the
                     \* Solution it was applied to
    n_calls,         \* how many calls were made
    tie_order,       \* how this build's std::sort leaves elements that compare
                     \* equal: a ranking of the items, fixed for the run
    order,           \* the visiting order of the last greedy construction
    strategy_,       \* the strategy of the last greedy construction
    rng_,            \* GRASPConstructive::rng_, the state of the engine
    seeded,          \* the seed the engine was last seeded with, as long as
                     \* nothing was drawn since; -1 once something was drawn
    runs,            \* the GRASP runs made: seed state at the start, arguments, result
    alpha_arg,       \* constructSolution: the argument alpha
    current_solution, \* buildRCL: the argument of the last call
    rcl,             \* constructSolution: rcl, the list the last buildRCL returned
    selected_item,   \* constructSolution: selected, the item drawn from rcl; -1 if none
    vnd_k,           \* VND::solve: k, the neighbourhood index
    iteration,       \* HillClimbing::solve, VND::solve: the iteration counter
    improvements,    \* HillClimbing::solve, VND::solve: the improvements counter
    max_iterations,  \* HillClimbing::solve, VND::solve: the argument
    hc_sol,          \* processInstanceEtapa2: hc_sol, once Hill Climbing has returned
    mode,            \* main: argv[1]
    inputs,          \* main: the file of argv[2], or the files of the directory
    cursor,          \* main: how many of the inputs have been processed
    all_results,     \* main: the ExperimentResult records collected
    exit_status      \* main: the status returned, "none" while running

inst_vars == <<file, n_items, capacity, profits, weights, conflicts,
               conflict_graph, load_result>>

sol_vars == <<sol, start_sol, hist, n_calls>>

greedy_vars == <<tie_order, order, strategy_>>

construct_vars == <<alpha_arg, current_solution, rcl, selected_item>>

grasp_vars == <<rng_, seeded, runs, construct_vars>>

ls_vars == <<vnd_k, iteration, improvements, max_iterations, hc_sol>>

main_vars == <<mode, inputs, cursor, all_results, exit_status>>

vars == <<inst_vars, pc, sol_vars, greedy_vars, grasp_vars, ls_vars, main_vars>>

\* ---------------------------------------------------------------- bounds

MaxItems == 3
MaxCapacity == 3
MaxProfit == 2
MaxWeight == 2
MaxPairs == 2
MaxCalls == 3
MaxIterations == 2
MaxSeed == 2
MaxRuns == 2
AlphaDen == 2
MaxSearchIterations == 3
MaxClimbItems == 4
MaxClimbPairs == 1
MaxClimbIterations == 4
LargeIterations == 1000

\* ------------------------------------------------------ program constants

\* The factor that stands for a ratio when the weight is zero.
ZeroWeightFactor == 1000

\* The score of a zero-weight item in the copy of greedy.cpp that returns a
\* constant for it.
ZeroWeightScore == 1000000000

\* ------------------------------------------------------- sequence helpers

Range(s) == {s[k] : k \in 1..Len(s)}

\* Insert x into the ascending sequence s, after the elements equal to it.
RECURSIVE InsertAsc(_, _)
InsertAsc(s, x) ==
    IF s = <<>> THEN <<x>>
    ELSE IF x < Head(s) THEN <<x>> \o s
    ELSE <<Head(s)>> \o InsertAsc(Tail(s), x)

\* std::sort / std::ranges::sort of a vector<int> with operator<.
RECURSIVE SortAsc(_)
SortAsc(s) == IF s = <<>> THEN <<>> ELSE InsertAsc(SortAsc(Tail(s)), Head(s))

\* std::unique followed by erase: drops every element equal to its predecessor.
RECURSIVE Unique(_)
Unique(s) ==
    IF Len(s) <= 1 THEN s
    ELSE IF s[1] = s[2] THEN Unique(Tail(s))
    ELSE <<s[1]>> \o Unique(Tail(s))

\* std::binary_search on s[lo..hi]: the halving search of lower_bound, then the
\* comparison at the position found.  It assumes s ascending, as the program does.
RECURSIVE LowerBound(_, _, _, _)
LowerBound(s, lo, hi, x) ==
    IF lo >= hi THEN lo
    ELSE LET mid == lo + ((hi - lo) \div 2)
         IN  IF s[mid] < x THEN LowerBound(s, mid + 1, hi, x)
             ELSE LowerBound(s, lo, mid, x)

BinarySearch(s, x) ==
    LET pos == LowerBound(s, 1, Len(s) + 1, x)
    IN  pos <= Len(s) /\ ~(x < s[pos])

\* ------------------------------------------------------------ the instance

Items == 0..(n_items - 1)

\* The raw adjacency lists: for each pair (u, v) of the list, in order,
\* push v on u's list and u on v's list.
RECURSIVE PushEdges(_, _)
PushEdges(cs, g) ==
    IF cs = <<>> THEN g
    ELSE LET u == Head(cs)[1]
             v == Head(cs)[2]
             g1 == [g EXCEPT ![u] = Append(@, v)]
             g2 == [g1 EXCEPT ![v] = Append(@, u)]
         IN  PushEdges(Tail(cs), g2)

\* Mutant: each pair is recorded on the first item's list only.
RECURSIVE PushEdgesOneWay(_, _)
PushEdgesOneWay(cs, g) ==
    IF cs = <<>> THEN g
    ELSE PushEdgesOneWay(Tail(cs), [g EXCEPT ![Head(cs)[1]] = Append(@, Head(cs)[2])])

buildConflictGraphOneWay(cs, n) ==
    LET raw == PushEdgesOneWay(cs, [i \in 0..(n - 1) |-> <<>>])
    IN  [i \in 0..(n - 1) |-> Unique(SortAsc(raw[i]))]

\* DCKPInstance::buildConflictGraph: clear, push both directions, then sort
\* each list and remove the duplicates.
buildConflictGraph(cs, n) ==
    LET raw == PushEdges(cs, [i \in 0..(n - 1) |-> <<>>])
    IN  [i \in 0..(n - 1) |-> Unique(SortAsc(raw[i]))]

\* DCKPInstance::hasConflict: binary search in the shorter of the two lists.
hasConflict(item1, item2) ==
    IF item1 < 0 \/ item1 >= n_items \/ item2 < 0 \/ item2 >= n_items
    THEN FALSE
    ELSE IF Len(conflict_graph[item1]) <= Len(conflict_graph[item2])
         THEN BinarySearch(conflict_graph[item1], item2)
         ELSE BinarySearch(conflict_graph[item2], item1)

\* DCKPInstance::getConflictDegree
getConflictDegree(item) ==
    IF item < 0 \/ item >= n_items THEN 0 ELSE Len(conflict_graph[item])

\* ------------------------------------------------------------- the loader

\* The pairs of a file that pass the range test, converted to 0-based.
RECURSIVE ReadPairs(_, _)
ReadPairs(ps, n) ==
    IF ps = <<>> THEN <<>>
    ELSE LET item1 == Head(ps)[1] - 1
             item2 == Head(ps)[2] - 1
         IN  IF item1 >= 0 /\ item1 < n /\ item2 >= 0 /\ item2 < n
             THEN <<(<<item1, item2>>)>> \o ReadPairs(Tail(ps), n)
             ELSE ReadPairs(Tail(ps), n)

\* All sequences over S of length at most k.
SeqsUpTo(S, k) == UNION {[1..m -> S] : m \in 0..k}

\* An instance file: whether it can be opened, its header, the profits, the
\* weights, and the 1-based conflict pairs up to end-of-file.
FilesWith(ns, caps, pvals, wvals, maxPairs) ==
    { [exists |-> TRUE, n |-> n, cap |-> c, p |-> p, w |-> w, pairs |-> ps] :
        n \in ns, c \in caps, p \in pvals, w \in wvals,
        ps \in SeqsUpTo((0..(MaxItems + 1)) \X (0..(MaxItems + 1)), maxPairs) }

NoFile == [exists |-> FALSE, n |-> 0, cap |-> 0, p |-> <<>>, w |-> <<>>, pairs |-> <<>>]

\* The profits (weights) of a file as the program indexes them.
Vec(s, n) == [i \in 0..(n - 1) |-> IF i + 1 <= Len(s) THEN s[i + 1] ELSE 0]

\* DCKPInstance::DCKPInstance()
InitInstance ==
    /\ n_items = 0
    /\ capacity = 0
    /\ profits = <<>>
    /\ weights = <<>>
    /\ conflicts = <<>>
    /\ conflict_graph = <<>>
    /\ load_result = "none"

\* readFromFile when the file cannot be opened.
ReadAbsent ==
    /\ pc = "start"
    /\ file.exists = FALSE
    /\ load_result' = "false"
    /\ pc' = "failed"
    /\ UNCHANGED <<file, n_items, capacity, profits, weights, conflicts, conflict_graph>>
    /\ UNCHANGED <<main_vars, sol_vars, greedy_vars, grasp_vars, ls_vars>>

\* readFromFile when the header is read and rejected.
ReadInvalid ==
    /\ pc = "start"
    /\ file.exists
    /\ (file.n <= 0 \/ file.cap <= 0)
    /\ n_items' = file.n
    /\ capacity' = file.cap
    /\ load_result' = "false"
    /\ pc' = "failed"
    /\ UNCHANGED <<file, profits, weights, conflicts, conflict_graph>>
    /\ UNCHANGED <<main_vars, sol_vars, greedy_vars, grasp_vars, ls_vars>>

\* readFromFile on a well-formed file, buildConflictGraph included.
ReadOk ==
    /\ pc = "start"
    /\ file.exists
    /\ ~(file.n <= 0 \/ file.cap <= 0)
    /\ n_items' = file.n
    /\ capacity' = file.cap
    /\ profits' = Vec(file.p, file.n)
    /\ weights' = Vec(file.w, file.n)
    /\ conflicts' = conflicts \o ReadPairs(file.pairs, file.n)
    /\ conflict_graph' = buildConflictGraph(conflicts', file.n)
    /\ load_result' = "true"
    /\ pc' = "loaded"
    /\ UNCHANGED file
    /\ UNCHANGED <<main_vars, sol_vars, greedy_vars, grasp_vars, ls_vars>>

\* The files of the loader's specification: every header, the same profit and
\* weight for every item, every list of at most MaxPairs pairs with indices
\* from 0 (below the range) to MaxItems + 1 (above it).
LoadFiles(n) ==
    FilesWith({n}, {0, MaxCapacity}, {[k \in 1..n |-> 1]}, {[k \in 1..n |-> 1]}, MaxPairs)

\* Solution::Solution()
Solution == [selected_items |-> {}, total_profit |-> 0, total_weight |-> 0,
             is_feasible |-> TRUE, method_name |-> "Unknown"]

NoSolution ==
    /\ sol = Solution
    /\ start_sol = Solution
    /\ hist = <<>>
    /\ n_calls = 0

\* The ascending ranking: what a stable sort would do.
Ascending == [i \in 0..(MaxItems - 1) |-> i]

NoEngine ==
    /\ order = <<>>
    /\ strategy_ = "none"
    /\ rng_ = 0
    /\ seeded = -1
    /\ runs = <<>>
    /\ alpha_arg = <<0, 1>>
    /\ current_solution = Solution
    /\ rcl = <<>>
    /\ selected_item = -1
    /\ vnd_k = 0
    /\ iteration = 0
    /\ improvements = 0
    /\ max_iterations = 0
    /\ hc_sol = Solution

\* main has not been entered.
NoMain ==
    /\ mode = "none"
    /\ inputs = <<>>
    /\ cursor = 0
    /\ all_results = <<>>
    /\ exit_status = "none"

InitLoad ==
    /\ \/ file = NoFile
       \/ \E n \in 0..MaxItems : file \in LoadFiles(n)
    /\ InitInstance
    /\ pc = "start"
    /\ NoSolution
    /\ tie_order = Ascending
    /\ NoEngine
    /\ NoMain

NextLoad == ReadAbsent \/ ReadInvalid \/ ReadOk

SpecLoad == InitLoad /\ [][NextLoad]_vars

\* The instance as readFromFile leaves it after reading f into a fresh object.
InstanceOf(f) ==
    /\ file = f
    /\ n_items = f.n
    /\ capacity = f.cap
    /\ profits = Vec(f.p, f.n)
    /\ weights = Vec(f.w, f.n)
    /\ conflicts = ReadPairs(f.pairs, f.n)
    /\ conflict_graph = buildConflictGraph(ReadPairs(f.pairs, f.n), f.n)
    /\ load_result = "true"

\* ------------------------------------------------------------ the Solution

\* The sum of f over the set S.
RECURSIVE Sum(_, _)
Sum(f, S) ==
    IF S = {} THEN 0
    ELSE LET x == CHOOSE y \in S : TRUE IN f[x] + Sum(f, S \ {x})

\* Mutant: the aggregates are updated whether or not the item was inserted.
addItemAlways(s, item, profit, weight) ==
    [s EXCEPT !.selected_items = @ \cup {item},
              !.total_profit = @ + profit,
              !.total_weight = @ + weight]

\* Mutant: the index inserted is one past the item's.
addItemOffByOne(s, item, profit, weight) ==
    IF item + 1 \notin s.selected_items
    THEN [s EXCEPT !.selected_items = @ \cup {item + 1},
                   !.total_profit = @ + profit,
                   !.total_weight = @ + weight]
    ELSE s

\* Solution::addItem: the aggregates change only when the set insert succeeds.
addItem(s, item, profit, weight) ==
    IF item \notin s.selected_items
    THEN [s EXCEPT !.selected_items = @ \cup {item},
                   !.total_profit = @ + profit,
                   !.total_weight = @ + weight]
    ELSE s

\* Mutant: the aggregates are updated whether or not the item was erased.
removeItemAlways(s, item, profit, weight) ==
    [s EXCEPT !.selected_items = @ \ {item},
              !.total_profit = @ - profit,
              !.total_weight = @ - weight]

\* Solution::removeItem: the aggregates change only when the set erase succeeds.
removeItem(s, item, profit, weight) ==
    IF item \in s.selected_items
    THEN [s EXCEPT !.selected_items = @ \ {item},
                   !.total_profit = @ - profit,
                   !.total_weight = @ - weight]
    ELSE s

\* Solution::hasItem
hasItem(s, item) == item \in s.selected_items

\* The last two entries of a call history.
LastTwo(h) == IF Len(h) <= 2 THEN h ELSE SubSeq(h, Len(h) - 1, Len(h))

\* A caller adds item i as every caller in the program does.
AddItem(i) ==
    /\ pc = "ops"
    /\ n_calls < MaxCalls
    /\ sol' = addItem(sol, i, profits[i], weights[i])
    /\ hist' = LastTwo(Append(hist, [op |-> "add", item |-> i, before |-> sol]))
    /\ n_calls' = n_calls + 1
    /\ UNCHANGED <<main_vars, inst_vars, pc, start_sol, greedy_vars, grasp_vars, ls_vars>>

\* A caller removes item i as every caller in the program does.
RemoveItem(i) ==
    /\ pc = "ops"
    /\ n_calls < MaxCalls
    /\ sol' = removeItem(sol, i, profits[i], weights[i])
    /\ hist' = LastTwo(Append(hist, [op |-> "remove", item |-> i, before |-> sol]))
    /\ n_calls' = n_calls + 1
    /\ UNCHANGED <<main_vars, inst_vars, pc, start_sol, greedy_vars, grasp_vars, ls_vars>>

\* Vectors of length n over 0..m.
Vectors(n, m) == [1..n -> 0..m]

\* The instances of the Solution specification: MaxItems items, no conflicts,
\* three profit vectors, two weight vectors.
SolutionFiles(n) ==
    FilesWith({n}, {MaxCapacity},
              {[k \in 1..n |-> k % (MaxProfit + 1)],
               [k \in 1..n |-> MaxProfit],
               [k \in 1..n |-> 0]},
              {[k \in 1..n |-> k % (MaxWeight + 1)],
               [k \in 1..n |-> MaxWeight]}, 0)

\* A Solution whose public fields a caller has set by hand: any selected set,
\* aggregates that are right or off by d.
HandMade(S, d, f) ==
    [selected_items |-> S,
     total_profit |-> Sum(profits, S) + d,
     total_weight |-> Sum(weights, S) + d,
     is_feasible |-> f,
     method_name |-> "Unknown"]

InitSolution ==
    /\ \E f \in SolutionFiles(MaxItems) : InstanceOf(f)
    /\ pc = "ops"
    /\ start_sol \in {Solution} \cup {HandMade(S, d, TRUE) : S \in SUBSET Items, d \in {0, 1}}
    /\ sol = start_sol
    /\ hist = <<>>
    /\ n_calls = 0
    /\ tie_order = Ascending
    /\ NoEngine
    /\ NoMain

NextSolution ==
    \/ \E i \in Items : AddItem(i)
    \/ \E i \in Items : RemoveItem(i)

SpecSolution == InitSolution /\ [][NextSolution]_vars

\* ----------------------------------------------------------- the Validator

\* Validator::recalculateMetrics: the sums over the selected items in range.
recalculateMetrics(s) ==
    LET inRange == {item \in s.selected_items : item >= 0 /\ item < n_items}
    IN  [s EXCEPT !.total_profit = Sum(profits, inRange),
                  !.total_weight = Sum(weights, inRange)]

\* The loops of Validator::validate over the pairs items[i], items[j], i < j, of
\* the selected items in ascending order.
PairConflict(S) == \E a \in S : \E b \in S : a < b /\ hasConflict(a, b)

\* The boolean Validator::validate computes: the capacity test reads the
\* total_weight the Solution carries on entry, before the metrics are recomputed.
validValue(s) ==
    /\ ~(s.total_weight > capacity)
    /\ ~PairConflict(s.selected_items)

\* Validator::validate, the Solution it leaves.
validate(s) == [recalculateMetrics(s) EXCEPT !.is_feasible = validValue(s)]

\* Validator::checkCapacity
checkCapacity(current_weight, item_weight) ==
    (current_weight + item_weight) <= capacity

\* Validator::checkConflicts
checkConflicts(item, selected_items) ==
    ~(\E selected \in selected_items : hasConflict(item, selected))

\* A caller validates the Solution it holds.
Validate ==
    /\ pc = "made"
    /\ n_calls < MaxCalls
    /\ sol' = validate(sol)
    /\ hist' = LastTwo(Append(hist, [op |-> "validate", before |-> sol,
                                     ret |-> validValue(sol)]))
    /\ n_calls' = n_calls + 1
    /\ UNCHANGED <<main_vars, inst_vars, pc, start_sol, greedy_vars, grasp_vars, ls_vars>>

\* The lists of at most k conflict pairs u <= v over items 1..n, ascending.
PairLists(n, k) ==
    LET P == {pr \in (1..n) \X (1..n) : pr[1] <= pr[2]}
        Less(a, b) == a[1] < b[1] \/ (a[1] = b[1] /\ a[2] < b[2])
    IN  {ps \in SeqsUpTo(P, k) : \A m \in 1..(Len(ps) - 1) : Less(ps[m], ps[m + 1])}

\* Files of n items with the given capacities, profit and weight vectors and
\* every ascending list of at most k in-range pairs (self pairs included).
InstanceFiles(n, caps, pvals, wvals, k) ==
    { [exists |-> TRUE, n |-> n, cap |-> c, p |-> p, w |-> w, pairs |-> ps] :
        c \in caps, p \in pvals, w \in wvals, ps \in PairLists(n, k) }

\* A Solution whose public fields a caller has set by hand.
HandMadeWith(S, tp, tw, f) ==
    [selected_items |-> S, total_profit |-> tp, total_weight |-> tw,
     is_feasible |-> f, method_name |-> "Unknown"]

ValidateFiles(n) ==
    InstanceFiles(n, 1..MaxCapacity, {[k \in 1..n |-> k % (MaxProfit + 1)]},
                  Vectors(n, MaxWeight), MaxPairs)

InitValidate ==
    /\ \E f \in ValidateFiles(MaxItems) : InstanceOf(f)
    /\ pc = "made"
    /\ start_sol \in UNION {{HandMadeWith(S, tp, tw, f) :
                                 tp \in {0, Sum(profits, S)},
                                 tw \in {0, Sum(weights, S), capacity + 1},
                                 f \in BOOLEAN} : S \in SUBSET Items}
    /\ sol = start_sol
    /\ hist = <<>>
    /\ n_calls = 0
    /\ tie_order = Ascending
    /\ NoEngine
    /\ NoMain

NextValidate == Validate

SpecValidate == InitValidate /\ [][NextValidate]_vars

\* ------------------------------------------------------------- the scores

\* A score is a fraction <<numerator, denominator>> with a positive
\* denominator; a > b on two scores:
ScoreGreater(a, b) == a[1] * b[2] > b[1] * a[2]

\* The profit/weight ratio, and ZeroWeightFactor times the profit when the
\* weight is zero.
Ratio(item) ==
    IF weights[item] = 0 THEN <<profits[item] * ZeroWeightFactor, 1>>
    ELSE IF weights[item] > 0 THEN <<profits[item], weights[item]>>
    ELSE <<-profits[item], -weights[item]>>

\* Insert item x into the sequence s, sorted by descending score: before the
\* first element of smaller score and, among elements of equal score, where
\* this build's sort leaves it (tie_order).
RECURSIVE InsertByScore(_, _, _)
InsertByScore(s, x, score) ==
    IF s = <<>> THEN <<x>>
    ELSE IF \/ ScoreGreater(score[x], score[Head(s)])
            \/ (/\ ~ScoreGreater(score[Head(s)], score[x])
                /\ tie_order[x] < tie_order[Head(s)])
         THEN <<x>> \o s
         ELSE <<Head(s)>> \o InsertByScore(Tail(s), x, score)

\* F on the value of v, v being evaluated once.
Bind(v, F(_)) == CHOOSE y \in {F(x) : x \in {v}} : TRUE

\* std::ranges::sort(v, std::greater<>{}) on elements whose operator> compares
\* the score alone: descending score; the order of equal scores is the build's.
RECURSIVE SortByScore(_, _)
SortByScore(s, score) ==
    IF s = <<>> THEN <<>>
    ELSE Bind(SortByScore(Tail(s), score),
              LAMBDA sorted : InsertByScore(sorted, Head(s), score))

\* The rankings a build may use for equal elements.
TieOrders(n) ==
    {f \in [0..(n - 1) -> 0..(n - 1)] : \A a, b \in 0..(n - 1) : a # b => f[a] # f[b]}

\* The items lo..hi-1 in index order.
RECURSIVE IndexSeq(_, _)
IndexSeq(lo, hi) == IF lo >= hi THEN <<>> ELSE <<lo>> \o IndexSeq(lo + 1, hi)

\* ------------------------------------------------------ GreedyConstructive

Strategies == {"MAX_PROFIT", "MIN_WEIGHT", "MAX_PROFIT_WEIGHT", "MIN_CONFLICTS"}

\* GreedyConstructive::calculateScore
GreedyCalculateScore(item, strategy) ==
    CASE strategy = "MAX_PROFIT" -> <<profits[item], 1>>
      [] strategy = "MIN_WEIGHT" -> <<-weights[item], 1>>
      [] strategy = "MAX_PROFIT_WEIGHT" -> Ratio(item)
      [] strategy = "MIN_CONFLICTS" -> <<-getConflictDegree(item), 1>>

\* GreedyConstructive::sortItemsByStrategy
sortItemsByStrategy(strategy) ==
    Bind([i \in Items |-> GreedyCalculateScore(i, strategy)],
         LAMBDA score : SortByScore(IndexSeq(0, n_items), score))

\* GreedyConstructive::calculateScore, the copy that returns ZeroWeightScore for
\* an item of weight zero under MAX_PROFIT_WEIGHT.
GreedyCalculateScoreConstant(item, strategy) ==
    CASE strategy = "MAX_PROFIT" -> <<profits[item], 1>>
      [] strategy = "MIN_WEIGHT" -> <<-weights[item], 1>>
      [] strategy = "MAX_PROFIT_WEIGHT" ->
            IF weights[item] = 0 THEN <<ZeroWeightScore, 1>>
            ELSE IF weights[item] > 0 THEN <<profits[item], weights[item]>>
            ELSE <<-profits[item], -weights[item]>>
      [] strategy = "MIN_CONFLICTS" -> <<-Len(conflict_graph[item]), 1>>

\* GreedyConstructive::sortItemsByStrategy of that copy.
sortItemsByStrategyConstant(strategy) ==
    Bind([i \in Items |-> GreedyCalculateScoreConstant(i, strategy)],
         LAMBDA score : SortByScore(IndexSeq(0, n_items), score))

\* GreedyConstructive::strategyToString
strategyToString(strategy) ==
    CASE strategy = "MAX_PROFIT" -> "MaxProfit"
      [] strategy = "MIN_WEIGHT" -> "MinWeight"
      [] strategy = "MAX_PROFIT_WEIGHT" -> "MaxProfitWeight"
      [] strategy = "MIN_CONFLICTS" -> "MinConflicts"

\* Mutant: the capacity probe is skipped.
RECURSIVE GreedyPassNoCapacity(_, _)
GreedyPassNoCapacity(items, s) ==
    IF items = <<>> THEN s
    ELSE LET item == Head(items)
         IN  IF ~checkConflicts(item, s.selected_items)
             THEN GreedyPassNoCapacity(Tail(items), s)
             ELSE GreedyPassNoCapacity(Tail(items),
                                       addItem(s, item, profits[item], weights[item]))

\* Mutant: the loop ends at the first item that conflicts.
RECURSIVE GreedyPassBreak(_, _)
GreedyPassBreak(items, s) ==
    IF items = <<>> THEN s
    ELSE LET item == Head(items)
         IN  IF ~checkCapacity(s.total_weight, weights[item])
             THEN GreedyPassBreak(Tail(items), s)
             ELSE IF ~checkConflicts(item, s.selected_items)
                  THEN s
                  ELSE GreedyPassBreak(Tail(items),
                                       addItem(s, item, profits[item], weights[item]))

\* The loop of GreedyConstructive::construct over the sorted items.
RECURSIVE GreedyPass(_, _)
GreedyPass(items, s) ==
    IF items = <<>> THEN s
    ELSE LET item == Head(items)
         IN  IF ~checkCapacity(s.total_weight, weights[item])
             THEN GreedyPass(Tail(items), s)
             ELSE IF ~checkConflicts(item, s.selected_items)
                  THEN GreedyPass(Tail(items), s)
                  ELSE GreedyPass(Tail(items),
                                  addItem(s, item, profits[item], weights[item]))

\* GreedyConstructive::construct
construct(strategy) ==
    validate(GreedyPass(sortItemsByStrategy(strategy),
                        [Solution EXCEPT !.method_name =
                             "Greedy_" \o strategyToString(strategy)]))

\* ------------------------------------------------------- double arithmetic

\* A natural number of any size: its digits in base LimbBase, the least
\* significant first, without leading zero digits.
LimbBase == 2 ^ 15

RECURSIVE Norm(_)
Norm(a) ==
    IF a = <<>> THEN a
    ELSE IF a[Len(a)] = 0 THEN Norm(SubSeq(a, 1, Len(a) - 1)) ELSE a

Limb(a, i) == IF i <= Len(a) THEN a[i] ELSE 0

RECURSIVE BigFromInt(_)
BigFromInt(n) ==
    IF n = 0 THEN <<>> ELSE <<n % LimbBase>> \o BigFromInt(n \div LimbBase)

\* -1, 0 or 1 as a < b, a = b or a > b, comparing from digit i down.
RECURSIVE CmpFrom(_, _, _)
CmpFrom(a, b, i) ==
    IF i = 0 THEN 0
    ELSE IF a[i] < b[i] THEN -1
    ELSE IF a[i] > b[i] THEN 1
    ELSE CmpFrom(a, b, i - 1)

BigCmp(a, b) ==
    IF Len(a) < Len(b) THEN -1
    ELSE IF Len(a) > Len(b) THEN 1
    ELSE CmpFrom(a, b, Len(a))

RECURSIVE AddFrom(_, _, _, _)
AddFrom(a, b, i, carry) ==
    IF i > Len(a) /\ i > Len(b) THEN (IF carry = 0 THEN <<>> ELSE <<carry>>)
    ELSE Bind(Limb(a, i) + Limb(b, i) + carry, LAMBDA t :
             <<t % LimbBase>> \o AddFrom(a, b, i + 1, t \div LimbBase))

BigAdd(a, b) == AddFrom(a, b, 1, 0)

\* a - b for a >= b.
RECURSIVE SubFrom(_, _, _, _)
SubFrom(a, b, i, borrow) ==
    IF i > Len(a) THEN <<>>
    ELSE Bind(LimbBase + a[i] - Limb(b, i) - borrow, LAMBDA t :
             <<t % LimbBase>> \o SubFrom(a, b, i + 1, 1 - (t \div LimbBase)))

BigSub(a, b) == Norm(SubFrom(a, b, 1, 0))

\* a times the digit d.
RECURSIVE MulSmallFrom(_, _, _, _)
MulSmallFrom(a, d, i, carry) ==
    IF i > Len(a) THEN (IF carry = 0 THEN <<>> ELSE <<carry>>)
    ELSE Bind(a[i] * d + carry, LAMBDA t :
             <<t % LimbBase>> \o MulSmallFrom(a, d, i + 1, t \div LimbBase))

MulSmall(a, d) == Norm(MulSmallFrom(a, d, 1, 0))

RECURSIVE MulFrom(_, _, _)
MulFrom(a, b, j) ==
    IF j > Len(b) THEN <<>>
    ELSE Bind(MulFrom(a, b, j + 1), LAMBDA rest :
         Bind(MulSmall(a, b[j]), LAMBDA row :
             BigAdd(row, IF rest = <<>> THEN <<>> ELSE <<0>> \o rest)))

BigMul(a, b) == MulFrom(a, b, 1)

RECURSIVE Zeros(_)
Zeros(n) == IF n = 0 THEN <<>> ELSE <<0>> \o Zeros(n - 1)

\* a * 2^s
Shl(a, s) ==
    IF a = <<>> THEN a
    ELSE Zeros(s \div 15) \o MulSmall(a, 2 ^ (s % 15))

\* a \div 2^s
Shr(a, s) ==
    IF s \div 15 >= Len(a) THEN <<>>
    ELSE Bind(SubSeq(a, (s \div 15) + 1, Len(a)), LAMBDA h :
             Norm([i \in 1..Len(h) |->
                      (h[i] \div 2 ^ (s % 15))
                      + (Limb(h, i + 1) % 2 ^ (s % 15)) * 2 ^ (15 - (s % 15))]))

RECURSIVE IntBits(_)
IntBits(n) == IF n = 0 THEN 0 ELSE 1 + IntBits(n \div 2)

\* The number of binary digits of a.
BitLength(a) == IF a = <<>> THEN 0 ELSE 15 * (Len(a) - 1) + IntBits(a[Len(a)])

IsOdd(a) == a # <<>> /\ a[1] % 2 = 1

\* The largest digit d of lo..hi with b * d <= r.
RECURSIVE DigitSearch(_, _, _, _)
DigitSearch(r, b, lo, hi) ==
    IF lo = hi THEN lo
    ELSE Bind((lo + hi + 1) \div 2, LAMBDA mid :
             IF BigCmp(MulSmall(b, mid), r) <= 0
             THEN DigitSearch(r, b, mid, hi)
             ELSE DigitSearch(r, b, lo, mid - 1))

\* The quotient and the remainder of a by b, b > 0, from digit i of a down.
RECURSIVE DivFrom(_, _, _, _)
DivFrom(a, b, i, rem) ==
    IF i = 0 THEN [quot |-> <<>>, rem |-> rem]
    ELSE Bind(Norm(<<a[i]>> \o rem), LAMBDA r :
         Bind(IF Len(b) = 1 THEN (Limb(r, 1) + Limb(r, 2) * LimbBase) \div b[1]
              ELSE DigitSearch(r, b, 0, LimbBase - 1), LAMBDA d :
         Bind(DivFrom(a, b, i - 1, BigSub(r, MulSmall(b, d))), LAMBDA rest :
             [quot |-> rest.quot \o <<d>>, rem |-> rest.rem])))

BigDiv(a, b) ==
    Bind(DivFrom(a, b, Len(a), <<>>), LAMBDA r :
        [quot |-> Norm(r.quot), rem |-> r.rem])

\* The precision of a double: the binary digits of its significand.
MantissaBits == 53

\* A double that is not negative: the value m * 2^e, m of MantissaBits binary
\* digits, or zero.
Zero == [m |-> <<>>, e |-> 0]

\* The double nearest to n * 2^e, the even one of two nearest (the rounding of
\* every operation on doubles).
Round(n, e) ==
    Bind(BitLength(n), LAMBDA len :
        IF len = 0 THEN Zero
        ELSE IF len <= MantissaBits
             THEN [m |-> Shl(n, MantissaBits - len), e |-> e - (MantissaBits - len)]
             ELSE Bind(len - MantissaBits, LAMBDA s :
                  Bind(Shr(n, s), LAMBDA q :
                  Bind(BigCmp(BigSub(n, Shl(q, s)), Shl(<<1>>, s - 1)), LAMBDA c :
                  Bind(IF c > 0 \/ (c = 0 /\ IsOdd(q)) THEN BigAdd(q, <<1>>) ELSE q,
                       LAMBDA up :
                      IF BitLength(up) > MantissaBits
                      THEN [m |-> Shr(up, 1), e |-> e + s + 1]
                      ELSE [m |-> up, e |-> e + s])))))

\* static_cast<double>(n), n >= 0
ToDouble(n) == Round(BigFromInt(n), 0)

\* a > b on doubles
DoubleGreater(a, b) ==
    IF a.m = <<>> THEN FALSE
    ELSE IF b.m = <<>> THEN TRUE
    ELSE IF a.e # b.e THEN a.e > b.e
    ELSE BigCmp(a.m, b.m) > 0

\* a * b on doubles
DoubleMul(a, b) ==
    IF a.m = <<>> \/ b.m = <<>> THEN Zero
    ELSE Round(BigMul(a.m, b.m), a.e + b.e)

Min2(x, y) == IF x <= y THEN x ELSE y

\* a + b on doubles
DoubleAdd(a, b) ==
    IF a.m = <<>> THEN b
    ELSE IF b.m = <<>> THEN a
    ELSE Bind(Min2(a.e, b.e), LAMBDA e :
             Round(BigAdd(Shl(a.m, a.e - e), Shl(b.m, b.e - e)), e))

\* a - b on doubles, a >= b
DoubleSub(a, b) ==
    IF b.m = <<>> THEN a
    ELSE Bind(Min2(a.e, b.e), LAMBDA e :
             Round(BigSub(Shl(a.m, a.e - e), Shl(b.m, b.e - e)), e))

\* The odd part of a significand: m without its trailing zero digits.
RECURSIVE OddPart(_, _)
OddPart(m, e) ==
    IF m[1] = 0 THEN OddPart(Tail(m), e + 15)
    ELSE IF m[1] % 2 = 0 THEN OddPart(Shr(m, 1), e + 1)
    ELSE [m |-> m, e |-> e]

\* a / b on doubles, b > 0: the quotient to more digits than the significand
\* keeps, and one digit more that tells whether a remainder is left.
DoubleDiv(a, b) ==
    IF a.m = <<>> THEN Zero
    ELSE Bind(OddPart(b.m, b.e), LAMBDA d :
         Bind(MantissaBits + 3 + BitLength(d.m), LAMBDA k :
         Bind(BigDiv(Shl(a.m, k), d.m), LAMBDA r :
             Round(BigAdd(Shl(r.quot, 1), IF r.rem = <<>> THEN <<>> ELSE <<1>>),
                   a.e - k - d.e - 1))))

\* Mutant: a > b where a >= b is meant.
DoubleGeqStrict(a, b) == DoubleGreater(a, b)

\* a >= b on doubles
DoubleGeq(a, b) == ~DoubleGreater(b, a)

\* ------------------------------------------------------- GRASPConstructive

\* std::mt19937 seeded with a seed: the engine state is a function of the seed.
SeedRng(seed) == seed % 8

\* One draw advances the engine.
NextRng(x) == (5 * x + 3) % 8

\* std::uniform_int_distribution<int>(0, size - 1) on the advanced engine.
Draw(x, size) == NextRng(x) % size

\* The number of selected items in conflict with item.
ConflictsWithSelected(item, s) ==
    Cardinality({selected \in s.selected_items : hasConflict(item, selected)})

\* The literals 1.0 and 0.1.
One == ToDouble(1)

Tenth == DoubleDiv(ToDouble(1), ToDouble(10))

\* The score GRASPConstructive::calculateScore gives an item of this profit,
\* this weight and this count of conflicts: the profit/weight ratio (the
\* profit times ZeroWeightFactor when the weight is not positive) times
\* penalty = 1.0 / (1.0 + 0.1 * conflict_count).
Score(profit, weight, conflict_count) ==
    DoubleMul(IF weight > 0 THEN DoubleDiv(ToDouble(profit), ToDouble(weight))
              ELSE DoubleMul(ToDouble(profit), ToDouble(ZeroWeightFactor)),
              DoubleDiv(One, DoubleAdd(One, DoubleMul(Tenth, ToDouble(conflict_count)))))

\* The scores of the items within the bounds, computed once.
ScoreTable ==
    [profit \in 0..MaxProfit, weight \in 0..MaxWeight, conflict_count \in 0..(2 * MaxItems)
        |-> Score(profit, weight, conflict_count)]

\* GRASPConstructive::calculateScore
GraspCalculateScore(item, s) ==
    Bind(ConflictsWithSelected(item, s) + getConflictDegree(item), LAMBDA conflict_count :
        IF <<profits[item], weights[item], conflict_count>> \in DOMAIN ScoreTable
        THEN ScoreTable[profits[item], weights[item], conflict_count]
        ELSE Score(profits[item], weights[item], conflict_count))

\* Insert candidate x into the sequence s, sorted by descending score
\* (Candidate::operator> compares the score alone); among equal scores, where
\* this build's sort leaves it (tie_order).
RECURSIVE InsertCandidate(_, _, _)
InsertCandidate(s, x, score) ==
    IF s = <<>> THEN <<x>>
    ELSE IF \/ DoubleGreater(score[x], score[Head(s)])
            \/ (/\ ~DoubleGreater(score[Head(s)], score[x])
                /\ tie_order[x] < tie_order[Head(s)])
         THEN <<x>> \o s
         ELSE <<Head(s)>> \o InsertCandidate(Tail(s), x, score)

\* std::ranges::sort(candidates, std::greater<>{})
RECURSIVE SortCandidates(_, _)
SortCandidates(s, score) ==
    IF s = <<>> THEN <<>>
    ELSE Bind(SortCandidates(Tail(s), score),
              LAMBDA sorted : InsertCandidate(sorted, Head(s), score))

\* The candidate filter of GRASPConstructive::buildRCL, in index order.
RECURSIVE Candidates(_, _)
Candidates(i, s) ==
    IF i >= n_items THEN <<>>
    ELSE IF \/ hasItem(s, i)
            \/ ~checkCapacity(s.total_weight, weights[i])
            \/ ~checkConflicts(i, s.selected_items)
         THEN Candidates(i + 1, s)
         ELSE <<i>> \o Candidates(i + 1, s)

\* alpha = a / AlphaDen, 0 <= alpha <= 1.
Alphas == {<<a, AlphaDen>> : a \in 0..AlphaDen}

\* config::GRASP_ALPHA, 0.3
GRASP_ALPHA == <<3, 10>>

\* The double of the parameter alpha, given as the fraction <<an, ad>>.
AlphaDouble(alpha) == DoubleDiv(ToDouble(alpha[1]), ToDouble(alpha[2]))

\* Mutant: the threshold is the minimum score, whatever alpha is.
ThresholdAtMin(max_score, min_score, alpha) == min_score

\* threshold = max_score - alpha * (max_score - min_score)
Threshold(max_score, min_score, alpha) ==
    DoubleSub(max_score, DoubleMul(AlphaDouble(alpha), DoubleSub(max_score, min_score)))

\* The thresholds of the scores within the bounds, computed once.
ThresholdTable ==
    [max_score \in {ScoreTable[k] : k \in DOMAIN ScoreTable},
     min_score \in {ScoreTable[k] : k \in DOMAIN ScoreTable},
     alpha \in Alphas \cup {GRASP_ALPHA}
        |-> IF DoubleGreater(min_score, max_score) THEN Zero
            ELSE Threshold(max_score, min_score, alpha)]

\* GRASPConstructive::buildRCL
buildRCL(s, alpha) ==
    Bind([i \in Items |-> GraspCalculateScore(i, s)], LAMBDA score :
    Bind(SortCandidates(Candidates(0, s), score), LAMBDA sorted :
        IF sorted = <<>> THEN <<>>
        ELSE Bind(IF <<score[sorted[1]], score[sorted[Len(sorted)]], alpha>>
                         \in DOMAIN ThresholdTable
                  THEN ThresholdTable[score[sorted[1]], score[sorted[Len(sorted)]], alpha]
                  ELSE Threshold(score[sorted[1]], score[sorted[Len(sorted)]], alpha),
                  LAMBDA threshold :
                 SelectSeq(sorted, LAMBDA c : DoubleGeq(score[c], threshold)))))

\* GRASPConstructive::constructSolution, the loop: the Solution and the engine
\* state it ends with.
RECURSIVE ConstructLoop(_, _, _)
ConstructLoop(s, x, alpha) ==
    Bind(buildRCL(s, alpha), LAMBDA list :
        IF list = <<>> THEN [sol |-> s, rng |-> x]
        ELSE Bind(list[Draw(x, Len(list)) + 1], LAMBDA selected :
             Bind(addItem(s, selected, profits[selected], weights[selected]), LAMBDA s2 :
             Bind(NextRng(x), LAMBDA x2 : ConstructLoop(s2, x2, alpha)))))

\* GRASPConstructive::constructSolution
constructSolution(x, alpha) ==
    Bind(ConstructLoop(Solution, x, alpha), LAMBDA r :
    Bind(r.sol, LAMBDA s : [sol |-> validate(s), rng |-> r.rng]))

\* Mutant: an iteration result of equal profit replaces the retained best.
RECURSIVE SolveLoopKeepsLast(_, _, _, _, _)
SolveLoopKeepsLast(i, iterations, best, x, alpha) ==
    IF i >= iterations THEN [sol |-> best, rng |-> x]
    ELSE Bind(constructSolution(x, alpha), LAMBDA r :
         Bind(r.sol, LAMBDA current :
         Bind(r.rng, LAMBDA x2 :
         Bind(i + 1, LAMBDA i2 :
             IF current.is_feasible /\ current.total_profit >= best.total_profit
             THEN SolveLoopKeepsLast(i2, iterations, current, x2, alpha)
             ELSE SolveLoopKeepsLast(i2, iterations, best, x2, alpha)))))

\* The multi-start loop of GRASPConstructive::solve from iteration i on.
RECURSIVE SolveLoop(_, _, _, _, _)
SolveLoop(i, iterations, best, x, alpha) ==
    IF i >= iterations THEN [sol |-> best, rng |-> x]
    ELSE Bind(constructSolution(x, alpha), LAMBDA r :
         Bind(r.sol, LAMBDA current :
         Bind(r.rng, LAMBDA x2 :
         Bind(i + 1, LAMBDA i2 :
             IF current.is_feasible /\ current.total_profit > best.total_profit
             THEN SolveLoop(i2, iterations, current, x2, alpha)
             ELSE SolveLoop(i2, iterations, best, x2, alpha)))))

\* The Solutions the iterations i, i + 1, ... of GRASPConstructive::solve
\* construct (current), in order, the engine being in state x.
RECURSIVE IterationResults(_, _, _, _)
IterationResults(i, iterations, x, alpha) ==
    IF i >= iterations THEN <<>>
    ELSE Bind(constructSolution(x, alpha), LAMBDA r :
             <<r.sol>> \o IterationResults(i + 1, iterations, r.rng, alpha))

\* The name GRASPConstructive::solve gives its result.
GraspName(iterations, alpha) ==
    "GRASP_" \o ToString(iterations) \o "_" \o ToString(alpha[1]) \o "/" \o ToString(alpha[2])

\* GRASPConstructive::solve
solve(x, iterations, alpha) ==
    Bind([Solution EXCEPT !.total_profit = -1], LAMBDA best :
    Bind(SolveLoop(0, iterations, best, x, alpha), LAMBDA r :
        [sol |-> [r.sol EXCEPT !.method_name = GraspName(iterations, alpha)],
         rng |-> r.rng]))

\* Mutant: the engine keeps its state.
setSeedKeepsState(x, seed) == x

\* GRASPConstructive::setSeed
setSeed(x, seed) == SeedRng(seed)

\* ------------------------------------------------------------ HillClimbing

\* The elements of a set of integers in ascending order (std::set iteration).
RECURSIVE AscSeq(_)
AscSeq(S) ==
    IF S = {} THEN <<>>
    ELSE LET m == CHOOSE x \in S : \A y \in S : x <= y
         IN  <<m>> \o AscSeq(S \ {m})

\* out_solution: the items not selected, in index order.
OutSolution(s) == SelectSeq(IndexSeq(0, n_items), LAMBDA i : ~hasItem(s, i))

\* Mutant: the conflict test of the swap moves is dropped.
ConflictWithRemainingNever(s, item_in, Out) == FALSE

\* item_in conflicts with a selected item other than those of the set Out.
ConflictWithRemaining(s, item_in, Out) ==
    \E remaining \in s.selected_items \ Out : hasConflict(item_in, remaining)

\* The neighbour of s that swaps item_out for item_in.
Swap11Neighbor(s, item_out, item_in) ==
    [addItem(removeItem(s, item_out, profits[item_out], weights[item_out]),
             item_in, profits[item_in], weights[item_in])
        EXCEPT !.is_feasible = TRUE]

\* The inner loop of generateSwapNeighborhood for one item_out.
RECURSIVE HCSwapRow(_, _, _)
HCSwapRow(s, item_out, ins) ==
    IF ins = <<>> THEN <<>>
    ELSE LET item_in == Head(ins)
             new_weight == s.total_weight - weights[item_out] + weights[item_in]
         IN  IF new_weight > capacity \/ ConflictWithRemaining(s, item_in, {item_out})
             THEN HCSwapRow(s, item_out, Tail(ins))
             ELSE <<Swap11Neighbor(s, item_out, item_in)>> \o HCSwapRow(s, item_out, Tail(ins))

\* The outer loop of generateSwapNeighborhood.
RECURSIVE HCSwapRows(_, _, _)
HCSwapRows(s, outs, ins) ==
    IF outs = <<>> THEN <<>>
    ELSE HCSwapRow(s, Head(outs), ins) \o HCSwapRows(s, Tail(outs), ins)

\* HillClimbing::generateSwapNeighborhood
generateSwapNeighborhood(s) == HCSwapRows(s, AscSeq(s.selected_items), OutSolution(s))

\* The scan of findBestNeighbor and of exploreNeighborhood: the index of the
\* first neighbour of the greatest profit above the current one, 0 if none.
\* Mutant: the best neighbour is taken, better than the current Solution or not.
RECURSIVE BestScanAnyNeighbour(_, _, _, _)
BestScanAnyNeighbour(neighborhood, current, i, best) ==
    IF i > Len(neighborhood) THEN best
    ELSE IF best = 0 \/ neighborhood[i].total_profit > neighborhood[best].total_profit
         THEN BestScanAnyNeighbour(neighborhood, current, i + 1, i)
         ELSE BestScanAnyNeighbour(neighborhood, current, i + 1, best)

\* Mutant: a neighbour of the profit of the current Solution is taken for an
\* improvement.
RECURSIVE BestScanAcceptsEqual(_, _, _, _)
BestScanAcceptsEqual(neighborhood, current, i, best) ==
    IF i > Len(neighborhood) THEN best
    ELSE IF /\ neighborhood[i].total_profit >= current.total_profit
            /\ (best = 0 \/ neighborhood[i].total_profit > neighborhood[best].total_profit)
         THEN BestScanAcceptsEqual(neighborhood, current, i + 1, i)
         ELSE BestScanAcceptsEqual(neighborhood, current, i + 1, best)

\* Mutant: among neighbours of the same, best, profit the last one wins.
RECURSIVE BestScanLast(_, _, _, _)
BestScanLast(neighborhood, current, i, best) ==
    IF i > Len(neighborhood) THEN best
    ELSE IF /\ neighborhood[i].total_profit > current.total_profit
            /\ (best = 0 \/ neighborhood[i].total_profit >= neighborhood[best].total_profit)
         THEN BestScanLast(neighborhood, current, i + 1, i)
         ELSE BestScanLast(neighborhood, current, i + 1, best)

RECURSIVE BestScan(_, _, _, _)
BestScan(neighborhood, current, i, best) ==
    IF i > Len(neighborhood) THEN best
    ELSE IF /\ neighborhood[i].total_profit > current.total_profit
            /\ (best = 0 \/ neighborhood[i].total_profit > neighborhood[best].total_profit)
         THEN BestScan(neighborhood, current, i + 1, i)
         ELSE BestScan(neighborhood, current, i + 1, best)

\* Mutant: the first neighbour generated is taken, whatever its profit.
findBestNeighborFirst(current, neighborhood) ==
    IF neighborhood = <<>> THEN [has_value |-> FALSE, value |-> current]
    ELSE [has_value |-> TRUE, value |-> neighborhood[1]]

\* HillClimbing::findBestNeighbor: the neighbour and whether there is one.
findBestNeighbor(current, neighborhood) ==
    LET b == BestScan(neighborhood, current, 1, 0)
    IN  IF b = 0 THEN [has_value |-> FALSE, value |-> current]
        ELSE [has_value |-> TRUE, value |-> neighborhood[b]]

\* ---------------------------------------------------------------------- VND

\* The ADD moves of generateAddDropNeighborhood, items i..n_items-1.
RECURSIVE AddMoves(_, _)
AddMoves(s, i) ==
    IF i >= n_items THEN <<>>
    ELSE IF \/ hasItem(s, i)
            \/ s.total_weight + weights[i] > capacity
            \/ \E selected \in s.selected_items : hasConflict(i, selected)
         THEN AddMoves(s, i + 1)
         ELSE <<[addItem(s, i, profits[i], weights[i]) EXCEPT !.is_feasible = TRUE]>>
              \o AddMoves(s, i + 1)

\* The DROP moves of generateAddDropNeighborhood.
RECURSIVE DropMoves(_, _)
DropMoves(s, items) ==
    IF items = <<>> THEN <<>>
    ELSE <<[removeItem(s, Head(items), profits[Head(items)], weights[Head(items)])
               EXCEPT !.is_feasible = TRUE]>>
         \o DropMoves(s, Tail(items))

\* VND::generateAddDropNeighborhood
generateAddDropNeighborhood(s) ==
    AddMoves(s, 0) \o DropMoves(s, AscSeq(s.selected_items))

\* The inner loop of generateSwap11Neighborhood for one item_out.
\* Mutant: the capacity test of the VND swap is dropped.
RECURSIVE Swap11RowNoCapacity(_, _, _)
Swap11RowNoCapacity(s, item_out, ins) ==
    IF ins = <<>> THEN <<>>
    ELSE LET item_in == Head(ins)
         IN  IF ConflictWithRemaining(s, item_in, {item_out})
             THEN Swap11RowNoCapacity(s, item_out, Tail(ins))
             ELSE <<Swap11Neighbor(s, item_out, item_in)>>
                      \o Swap11RowNoCapacity(s, item_out, Tail(ins))

RECURSIVE Swap11Row(_, _, _)
Swap11Row(s, item_out, ins) ==
    IF ins = <<>> THEN <<>>
    ELSE LET item_in == Head(ins)
             new_weight == s.total_weight - weights[item_out] + weights[item_in]
         IN  IF new_weight > capacity \/ ConflictWithRemaining(s, item_in, {item_out})
             THEN Swap11Row(s, item_out, Tail(ins))
             ELSE <<Swap11Neighbor(s, item_out, item_in)>> \o Swap11Row(s, item_out, Tail(ins))

RECURSIVE Swap11Rows(_, _, _)
Swap11Rows(s, outs, ins) ==
    IF outs = <<>> THEN <<>>
    ELSE Swap11Row(s, Head(outs), ins) \o Swap11Rows(s, Tail(outs), ins)

\* VND::generateSwap11Neighborhood
generateSwap11Neighborhood(s) == Swap11Rows(s, AscSeq(s.selected_items), OutSolution(s))

\* The neighbour of s that swaps item_out1 and item_out2 for item_in.
Swap21Neighbor(s, item_out1, item_out2, item_in) ==
    [addItem(removeItem(removeItem(s, item_out1, profits[item_out1], weights[item_out1]),
                        item_out2, profits[item_out2], weights[item_out2]),
             item_in, profits[item_in], weights[item_in])
        EXCEPT !.is_feasible = TRUE]

\* The innermost loop of generateSwap21Neighborhood for one pair.
\* Mutant: the profit test of the 2-1 swap is dropped.
RECURSIVE Swap21RowAnyProfit(_, _, _, _)
Swap21RowAnyProfit(s, item_out1, item_out2, ins) ==
    IF ins = <<>> THEN <<>>
    ELSE LET item_in == Head(ins)
             freed_weight == weights[item_out1] + weights[item_out2]
             new_weight == s.total_weight - freed_weight + weights[item_in]
         IN  IF \/ new_weight > capacity
                \/ ConflictWithRemaining(s, item_in, {item_out1, item_out2})
             THEN Swap21RowAnyProfit(s, item_out1, item_out2, Tail(ins))
             ELSE <<Swap21Neighbor(s, item_out1, item_out2, item_in)>>
                  \o Swap21RowAnyProfit(s, item_out1, item_out2, Tail(ins))

RECURSIVE Swap21Row(_, _, _, _)
Swap21Row(s, item_out1, item_out2, ins) ==
    IF ins = <<>> THEN <<>>
    ELSE LET item_in == Head(ins)
             freed_weight == weights[item_out1] + weights[item_out2]
             freed_profit == profits[item_out1] + profits[item_out2]
             new_weight == s.total_weight - freed_weight + weights[item_in]
         IN  IF \/ profits[item_in] <= freed_profit
                \/ new_weight > capacity
                \/ ConflictWithRemaining(s, item_in, {item_out1, item_out2})
             THEN Swap21Row(s, item_out1, item_out2, Tail(ins))
             ELSE <<Swap21Neighbor(s, item_out1, item_out2, item_in)>>
                  \o Swap21Row(s, item_out1, item_out2, Tail(ins))

\* The loops over the pairs in_solution[i], in_solution[j], i < j.
RECURSIVE Swap21Pairs(_, _, _, _, _)
Swap21Pairs(s, in_solution, i, j, ins) ==
    IF i > Len(in_solution) THEN <<>>
    ELSE IF j > Len(in_solution) THEN Swap21Pairs(s, in_solution, i + 1, i + 2, ins)
    ELSE Swap21Row(s, in_solution[i], in_solution[j], ins)
         \o Swap21Pairs(s, in_solution, i, j + 1, ins)

\* VND::generateSwap21Neighborhood
generateSwap21Neighborhood(s) ==
    LET in_solution == AscSeq(s.selected_items)
    IN  IF Len(in_solution) < 2 THEN <<>>
        ELSE Swap21Pairs(s, in_solution, 1, 2, OutSolution(s))

\* Mutant: the first neighbour of the Add/Drop neighbourhood is taken, whatever
\* its profit.
exploreNeighborhoodFirst(current, type) ==
    IF type = 1 /\ generateAddDropNeighborhood(current) # <<>>
    THEN [sol |-> generateAddDropNeighborhood(current)[1], found |-> TRUE]
    ELSE [sol |-> current, found |-> FALSE]

\* VND::exploreNeighborhood, type = 1 (ADD_DROP), 2 (SWAP_1_1), 3 (SWAP_2_1).
exploreNeighborhood(current, type) ==
    LET neighborhood ==
            CASE type = 1 -> generateAddDropNeighborhood(current)
              [] type = 2 -> generateSwap11Neighborhood(current)
              [] type = 3 -> generateSwap21Neighborhood(current)
              [] OTHER -> <<>>
        b == BestScan(neighborhood, current, 1, 0)
    IN  IF b = 0 THEN [sol |-> current, found |-> FALSE]
        ELSE [sol |-> neighborhood[b], found |-> TRUE]

\* ------------------------------------------------------------ the program

\* GreedyConstructive::construct on the loaded instance.
GreedyConstruct(strategy) ==
    /\ pc = "loaded"
    /\ sol' = construct(strategy)
    /\ order' = sortItemsByStrategy(strategy)
    /\ strategy_' = strategy
    /\ pc' = "constructed"
    /\ UNCHANGED <<main_vars, inst_vars, start_sol, hist, n_calls, tie_order, grasp_vars, ls_vars>>

\* GRASPConstructive::GRASPConstructive(instance, seed)
NewGrasp(seed) ==
    /\ pc = "loaded"
    /\ rng_' = SeedRng(seed)
    /\ seeded' = seed
    /\ pc' = "grasp"
    /\ UNCHANGED <<main_vars, inst_vars, sol_vars, greedy_vars, runs, construct_vars, ls_vars>>

\* GRASPConstructive::setSeed on the engine.
SetSeed(seed) ==
    /\ pc = "grasp"
    /\ rng_' = setSeed(rng_, seed)
    /\ seeded' = seed
    /\ UNCHANGED <<main_vars, inst_vars, pc, sol_vars, greedy_vars, runs, construct_vars, ls_vars>>

\* GRASPConstructive::solve on the engine; the run is recorded with the seed
\* the engine was given if nothing has drawn from it since.
Solve(iterations, alpha) ==
    /\ pc = "grasp"
    /\ Len(runs) < MaxRuns
    /\ \E r \in {solve(rng_, iterations, alpha)} :
           /\ sol' = r.sol
           /\ rng_' = r.rng
           /\ runs' = Append(runs, [seed |-> seeded, iterations |-> iterations,
                                    alpha |-> alpha, result |-> r.sol])
    /\ seeded' = -1
    /\ UNCHANGED <<main_vars, inst_vars, pc, start_sol, hist, n_calls, greedy_vars, construct_vars, ls_vars>>

\* processInstanceEtapa2: a fresh engine is constructed and solve is called.
RunGrasp(seed, iterations, alpha) ==
    /\ pc = "loaded"
    /\ \E x \in {SeedRng(seed)} : \E r \in {solve(x, iterations, alpha)} :
           /\ sol' = r.sol
           /\ rng_' = r.rng
           /\ runs' = Append(runs, [seed |-> seed, iterations |-> iterations,
                                    alpha |-> alpha, result |-> r.sol])
    /\ seeded' = -1
    /\ pc' = "constructed"
    /\ UNCHANGED <<main_vars, inst_vars, start_sol, hist, n_calls, greedy_vars, construct_vars, ls_vars>>

\* GRASPConstructive::constructSolution on a fresh engine, up to the loop.
StartConstruct(seed, alpha) ==
    /\ pc = "loaded"
    /\ rng_' = SeedRng(seed)
    /\ seeded' = seed
    /\ alpha_arg' = alpha
    /\ sol' = Solution
    /\ pc' = "construct"
    /\ UNCHANGED <<main_vars, inst_vars, start_sol, hist, n_calls, greedy_vars, runs,
                   current_solution, rcl, selected_item, ls_vars>>

\* One pass of the loop of constructSolution that adds an item: the list is
\* built, an item is drawn from it and added.
ConstructStep ==
    /\ pc = "construct"
    /\ \E list \in {buildRCL(sol, alpha_arg)} :
           /\ list # <<>>
           /\ \E selected \in {list[Draw(rng_, Len(list)) + 1]} :
                  /\ sol' = addItem(sol, selected, profits[selected], weights[selected])
                  /\ selected_item' = selected
           /\ rcl' = list
    /\ current_solution' = sol
    /\ rng_' = NextRng(rng_)
    /\ seeded' = -1
    /\ UNCHANGED <<main_vars, inst_vars, pc, start_sol, hist, n_calls, greedy_vars, runs,
                   alpha_arg, ls_vars>>

\* The last pass of the loop: the list is empty, the Solution is validated
\* and returned.
ConstructEnd ==
    /\ pc = "construct"
    /\ buildRCL(sol, alpha_arg) = <<>>
    /\ current_solution' = sol
    /\ rcl' = <<>>
    /\ selected_item' = -1
    /\ sol' = validate(sol)
    /\ pc' = "construct_done"
    /\ UNCHANGED <<main_vars, inst_vars, start_sol, hist, n_calls, greedy_vars, rng_, seeded,
                   runs, alpha_arg, ls_vars>>

\* A Solution is at hand to start a local search from: the one a caller made,
\* or the one construct or solve has returned.
HasStart == pc \in {"constructed", "given"}

\* HillClimbing::solve, up to the loop.
StartHC(m) ==
    /\ HasStart
    /\ start_sol' = sol
    /\ sol' = [sol EXCEPT !.method_name = "HillClimbing"]
    /\ iteration' = 0
    /\ improvements' = 0
    /\ max_iterations' = m
    /\ pc' = "hc"
    /\ UNCHANGED <<main_vars, inst_vars, hist, n_calls, greedy_vars, grasp_vars, vnd_k, hc_sol>>

\* One pass of the loop of HillClimbing::solve that moves to the best neighbour.
HCMove ==
    /\ pc = "hc"
    /\ iteration < max_iterations
    /\ LET best_neighbor == findBestNeighbor(sol, generateSwapNeighborhood(sol))
       IN  /\ best_neighbor.has_value
           /\ sol' = best_neighbor.value
    /\ improvements' = improvements + 1
    /\ iteration' = iteration + 1
    /\ UNCHANGED <<main_vars, inst_vars, pc, start_sol, hist, n_calls, greedy_vars, grasp_vars,
                   vnd_k, max_iterations, hc_sol>>

\* The pass that finds no improving neighbour: break.
HCBreak ==
    /\ pc = "hc"
    /\ iteration < max_iterations
    /\ ~findBestNeighbor(sol, generateSwapNeighborhood(sol)).has_value
    /\ pc' = "hc_done"
    /\ UNCHANGED <<main_vars, inst_vars, sol_vars, greedy_vars, grasp_vars, ls_vars>>

\* The loop condition fails: HillClimbing::solve returns.
HCExit ==
    /\ pc = "hc"
    /\ ~(iteration < max_iterations)
    /\ pc' = "hc_done"
    /\ UNCHANGED <<main_vars, inst_vars, sol_vars, greedy_vars, grasp_vars, ls_vars>>

\* VND::solve, up to the loop.
StartVND(m) ==
    /\ HasStart
    /\ start_sol' = sol
    /\ sol' = [sol EXCEPT !.method_name = "VND"]
    /\ vnd_k' = 1
    /\ iteration' = 0
    /\ improvements' = 0
    /\ max_iterations' = m
    /\ pc' = "vnd"
    /\ UNCHANGED <<main_vars, inst_vars, hist, n_calls, greedy_vars, grasp_vars, hc_sol>>

\* Mutant: after an improvement the search stays in the neighbourhood it is in.
VNDImproveKeepsK ==
    /\ pc = "vnd"
    /\ vnd_k <= 3 /\ iteration < max_iterations
    /\ LET r == exploreNeighborhood(sol, vnd_k)
       IN  /\ r.found
           /\ sol' = r.sol
    /\ improvements' = improvements + 1
    /\ iteration' = iteration + 1
    /\ UNCHANGED <<main_vars, inst_vars, pc, start_sol, hist, n_calls, greedy_vars, grasp_vars,
                   vnd_k, max_iterations, hc_sol>>

\* One pass of the loop of VND::solve in which neighbourhood k improves.
VNDImprove ==
    /\ pc = "vnd"
    /\ vnd_k <= 3 /\ iteration < max_iterations
    /\ LET r == exploreNeighborhood(sol, vnd_k)
       IN  /\ r.found
           /\ sol' = r.sol
    /\ vnd_k' = 1
    /\ improvements' = improvements + 1
    /\ iteration' = iteration + 1
    /\ UNCHANGED <<main_vars, inst_vars, pc, start_sol, hist, n_calls, greedy_vars, grasp_vars,
                   max_iterations, hc_sol>>

\* Mutant: a pass without improvement is not counted.
VNDNextNoCount ==
    /\ pc = "vnd"
    /\ vnd_k <= 3 /\ iteration < max_iterations
    /\ ~exploreNeighborhood(sol, vnd_k).found
    /\ vnd_k' = vnd_k + 1
    /\ UNCHANGED <<main_vars, inst_vars, pc, sol_vars, greedy_vars, grasp_vars, improvements,
                   iteration, max_iterations, hc_sol>>

\* One pass in which neighbourhood k does not improve.
VNDNext ==
    /\ pc = "vnd"
    /\ vnd_k <= 3 /\ iteration < max_iterations
    /\ ~exploreNeighborhood(sol, vnd_k).found
    /\ vnd_k' = vnd_k + 1
    /\ iteration' = iteration + 1
    /\ UNCHANGED <<main_vars, inst_vars, pc, sol_vars, greedy_vars, grasp_vars, improvements,
                   max_iterations, hc_sol>>

\* Mutant: the loop of VND::solve ends after the second neighbourhood.
VNDExitEarly ==
    /\ pc = "vnd"
    /\ ~(vnd_k <= 2 /\ iteration < max_iterations)
    /\ pc' = "vnd_done"
    /\ UNCHANGED <<main_vars, inst_vars, sol_vars, greedy_vars, grasp_vars, ls_vars>>

\* The loop condition fails: VND::solve returns.
VNDExit ==
    /\ pc = "vnd"
    /\ ~(vnd_k <= 3 /\ iteration < max_iterations)
    /\ pc' = "vnd_done"
    /\ UNCHANGED <<main_vars, inst_vars, sol_vars, greedy_vars, grasp_vars, ls_vars>>

\* Mutant: VND::solve is called on the Solution Hill Climbing returned.
ThenVNDChained(m) ==
    /\ pc = "hc_done"
    /\ hc_sol' = sol
    /\ sol' = [sol EXCEPT !.method_name = "VND"]
    /\ vnd_k' = 1
    /\ iteration' = 0
    /\ improvements' = 0
    /\ max_iterations' = m
    /\ pc' = "vnd"
    /\ UNCHANGED <<main_vars, inst_vars, start_sol, hist, n_calls, greedy_vars, grasp_vars>>

\* processInstanceEtapa2, after Hill Climbing has returned hc_sol: VND::solve is
\* called on the Solution Hill Climbing was given.
ThenVND(m) ==
    /\ pc = "hc_done"
    /\ hc_sol' = sol
    /\ sol' = [start_sol EXCEPT !.method_name = "VND"]
    /\ vnd_k' = 1
    /\ iteration' = 0
    /\ improvements' = 0
    /\ max_iterations' = m
    /\ pc' = "vnd"
    /\ UNCHANGED <<main_vars, inst_vars, start_sol, hist, n_calls, greedy_vars, grasp_vars>>

\* The instances of the program's specification: MaxItems items, capacity
\* MaxCapacity, three profit vectors, three weight vectors (zero weights and
\* over-capacity totals among them), at most one conflict pair.
ProgramFiles(n) ==
    InstanceFiles(n, {MaxCapacity},
                  {[i \in 1..n |-> i % (MaxProfit + 1)],
                   [i \in 1..n |-> MaxProfit],
                   [i \in 1..n |-> (i + 1) % (MaxProfit + 1)]},
                  {[i \in 1..n |-> i % (MaxWeight + 1)],
                   [i \in 1..n |-> MaxWeight],
                   [i \in 1..n |-> IF i = 1 THEN MaxWeight ELSE 1]}, 1)

Init ==
    /\ \E f \in ProgramFiles(MaxItems) : InstanceOf(f)
    /\ pc = "loaded"
    /\ NoSolution
    /\ tie_order \in TieOrders(MaxItems)
    /\ NoEngine
    /\ NoMain

LocalSearch ==
    \/ \E m \in 1..MaxSearchIterations : StartHC(m)
    \/ HCMove
    \/ HCBreak
    \/ HCExit
    \/ \E m \in 1..MaxSearchIterations : StartVND(m)
    \/ VNDImprove
    \/ VNDNext
    \/ VNDExit

Next ==
    \/ \E strategy \in Strategies : GreedyConstruct(strategy)
    \/ \E seed \in 0..MaxSeed : \E iterations \in 1..MaxIterations :
           \E alpha \in Alphas : RunGrasp(seed, iterations, alpha)
    \/ LocalSearch

Spec == Init /\ [][Next]_vars

\* A caller drives one engine: construction, setSeed and solve in any order.
NextGrasp ==
    \/ \E seed \in 0..MaxSeed : NewGrasp(seed)
    \/ \E seed \in 0..MaxSeed : SetSeed(seed)
    \/ \E iterations \in 1..MaxIterations : \E alpha \in Alphas : Solve(iterations, alpha)

SpecGrasp == Init /\ [][NextGrasp]_vars

\* One construction of GRASP, pass by pass.
NextConstruct ==
    \/ \E seed \in 0..MaxSeed : \E alpha \in Alphas : StartConstruct(seed, alpha)
    \/ ConstructStep
    \/ ConstructEnd

SpecConstruct == Init /\ [][NextConstruct]_vars

\* The constructions: one greedy strategy, or one construction of GRASP pass
\* by pass.
NextBuild ==
    \/ \E strategy \in Strategies : GreedyConstruct(strategy)
    \/ \E seed \in 0..MaxSeed : \E alpha \in Alphas : StartConstruct(seed, alpha)
    \/ ConstructStep
    \/ ConstructEnd

SpecBuild == Init /\ [][NextBuild]_vars

\* The instances of the local searches' specification.
SearchFiles(n) ==
    InstanceFiles(n, {MaxCapacity},
                  {[i \in 1..n |-> i % (MaxProfit + 1)],
                   [i \in 1..n |-> MaxProfit],
                   [i \in 1..n |-> (i + 1) % (MaxProfit + 1)]},
                  Vectors(n, MaxWeight), MaxPairs)

\* A caller hands the local searches a Solution it made: any selected set,
\* aggregates right or off by one, either flag.
InitSearch ==
    /\ \E f \in SearchFiles(MaxItems) : InstanceOf(f)
    /\ pc = "given"
    /\ sol \in {HandMade(S, d, f) : S \in SUBSET Items, d \in {0, 1}, f \in BOOLEAN}
    /\ start_sol = sol
    /\ hist = <<>>
    /\ n_calls = 0
    /\ tie_order = Ascending
    /\ NoEngine
    /\ NoMain

NextSearch == LocalSearch

SpecSearch == InitSearch /\ [][NextSearch]_vars

\* Larger instances for the local searches, where a search can move more than
\* once: three profit vectors, three weight vectors, at most MaxClimbPairs pairs.
ClimbFiles(n) ==
    InstanceFiles(n, {MaxCapacity},
                  {[i \in 1..n |-> i % (MaxProfit + 1)],
                   [i \in 1..n |-> MaxProfit],
                   [i \in 1..n |-> (i + 1) % (MaxProfit + 1)]},
                  {[i \in 1..n |-> 1],
                   [i \in 1..n |-> 0],
                   [i \in 1..n |-> i % (MaxWeight + 1)]},
                  MaxClimbPairs)

InitClimb ==
    /\ \E f \in ClimbFiles(MaxClimbItems) : InstanceOf(f)
    /\ pc = "given"
    /\ sol \in {HandMade(S, d, f) : S \in SUBSET Items, d \in {0, 1}, f \in BOOLEAN}
    /\ start_sol = sol
    /\ hist = <<>>
    /\ n_calls = 0
    /\ tie_order = Ascending
    /\ NoEngine
    /\ NoMain

NextClimb ==
    \/ \E m \in 1..MaxClimbIterations : StartHC(m)
    \/ HCMove
    \/ HCBreak
    \/ HCExit
    \/ \E m \in 1..MaxClimbIterations : StartVND(m)
    \/ VNDImprove
    \/ VNDNext
    \/ VNDExit

SpecClimb == InitClimb /\ [][NextClimb]_vars

\* The local searches run to their end, with an iteration limit of one or one
\* that is never reached. The program is sequential: a step that can be taken
\* is taken.
NextTerminate ==
    \/ \E m \in {1, LargeIterations} : StartHC(m)
    \/ HCMove
    \/ HCBreak
    \/ HCExit
    \/ \E m \in {1, LargeIterations} : StartVND(m)
    \/ VNDImprove
    \/ VNDNext
    \/ VNDExit

\* The instances of the termination specification: two profit vectors, unit
\* weights, at most MaxClimbPairs pairs.
TerminateFiles(n) ==
    InstanceFiles(n, {MaxCapacity},
                  {[i \in 1..n |-> i % (MaxProfit + 1)],
                   [i \in 1..n |-> (i + 1) % (MaxProfit + 1)]},
                  {[i \in 1..n |-> 1]},
                  MaxClimbPairs)

InitTerminate ==
    /\ \E f \in TerminateFiles(MaxClimbItems) : InstanceOf(f)
    /\ pc = "given"
    /\ sol \in {HandMade(S, d, TRUE) : S \in SUBSET Items, d \in {0, 1}}
    /\ start_sol = sol
    /\ hist = <<>>
    /\ n_calls = 0
    /\ tie_order = Ascending
    /\ NoEngine
    /\ NoMain

SpecTerminate == InitTerminate /\ [][NextTerminate]_vars /\ WF_vars(NextTerminate)

\* sortItemsByStrategy on the loaded instance, as either copy of greedy.cpp in
\* the repository computes it.
SortItems(strategy) ==
    /\ pc = "loaded"
    /\ order' \in {sortItemsByStrategy(strategy), sortItemsByStrategyConstant(strategy)}
    /\ strategy_' = strategy
    /\ pc' = "sorted"
    /\ UNCHANGED <<main_vars, inst_vars, sol_vars, tie_order, grasp_vars, ls_vars>>

\* The instances of the sort specification: up to MaxItems items of weight
\* zero among them.
SortFiles(n) ==
    InstanceFiles(n, {MaxCapacity},
                  {[i \in 1..n |-> i % (MaxProfit + 1)],
                   [i \in 1..n |-> MaxProfit],
                   [i \in 1..n |-> (i + 1) % (MaxProfit + 1)]},
                  {[i \in 1..n |-> 0],
                   [i \in 1..n |-> i % (MaxWeight + 1)],
                   [i \in 1..n |-> IF i = 1 THEN 1 ELSE 0]}, 1)

InitSort ==
    /\ \E f \in SortFiles(MaxItems) : InstanceOf(f)
    /\ pc = "loaded"
    /\ NoSolution
    /\ tie_order \in TieOrders(MaxItems)
    /\ NoEngine
    /\ NoMain

NextSort == \E strategy \in Strategies : SortItems(strategy)

SpecSort == InitSort /\ [][NextSort]_vars

\* The local searches of processInstanceEtapa2: Hill Climbing, then VND.
Etapa2Searches ==
    \/ \E m \in 1..MaxSearchIterations : StartHC(m)
    \/ HCMove
    \/ HCBreak
    \/ HCExit
    \/ \E m \in 1..MaxSearchIterations : ThenVND(m)
    \/ VNDImprove
    \/ VNDNext
    \/ VNDExit

\* processInstanceEtapa2 on a loaded instance: GRASP, Hill Climbing, VND.
NextEtapa2 ==
    \/ \E seed \in 0..MaxSeed : \E iterations \in 1..MaxIterations :
           \E alpha \in Alphas : RunGrasp(seed, iterations, alpha)
    \/ Etapa2Searches

SpecEtapa2 == Init /\ [][NextEtapa2]_vars

\* The instance of the spec's scenario "VND escapes HC" (1-based pair (3, 4)).
Scenario4 ==
    [exists |-> TRUE, n |-> 4, cap |-> 10, p |-> <<6, 6, 10, 1>>, w |-> <<5, 5, 9, 1>>,
     pairs |-> <<<<3, 4>>>>]

\* The scenario's instance and its variants with no or another conflict pair.
Scenario4Files == InstanceFiles(Scenario4.n, {Scenario4.cap}, {Scenario4.p}, {Scenario4.w}, 1)

\* A caller hands the searches a Solution with right aggregates on one of the
\* scenario's instances.
InitScenario4 ==
    /\ \E f \in Scenario4Files : InstanceOf(f)
    /\ pc = "given"
    /\ sol \in {HandMade(S, 0, TRUE) : S \in SUBSET Items}
    /\ start_sol = sol
    /\ hist = <<>>
    /\ n_calls = 0
    /\ tie_order = Ascending
    /\ NoEngine
    /\ NoMain

NextScenario4 == Etapa2Searches

SpecScenario4 == InitScenario4 /\ [][NextScenario4]_vars

\* ----------------------------------------------------------------- main

HILL_CLIMBING_MAX_ITER == 100
VND_MAX_ITER == 1000
DefaultSeed == 42

\* The loop of HillClimbing::solve, run to its end.
RECURSIVE HCLoop(_, _, _)
HCLoop(current_sol, it, m) ==
    IF ~(it < m) THEN current_sol
    ELSE Bind(findBestNeighbor(current_sol, generateSwapNeighborhood(current_sol)),
              LAMBDA best_neighbor :
                  IF ~best_neighbor.has_value THEN current_sol
                  ELSE Bind(it + 1, LAMBDA it2 : HCLoop(best_neighbor.value, it2, m)))

\* HillClimbing::solve, as one call.
HillClimbingSolve(initial_solution, m) ==
    Bind([initial_solution EXCEPT !.method_name = "HillClimbing"],
         LAMBDA current_sol : HCLoop(current_sol, 0, m))

\* The loop of VND::solve, run to its end.
RECURSIVE VNDLoop(_, _, _, _)
VNDLoop(current_sol, kk, it, m) ==
    IF ~(kk <= 3 /\ it < m) THEN current_sol
    ELSE Bind(exploreNeighborhood(current_sol, kk), LAMBDA r :
         Bind(it + 1, LAMBDA it2 :
             IF r.found THEN VNDLoop(r.sol, 1, it2, m)
             ELSE Bind(kk + 1, LAMBDA k2 : VNDLoop(current_sol, k2, it2, m))))

\* VND::solve, as one call.
VNDSolve(initial_solution, m) ==
    Bind([initial_solution EXCEPT !.method_name = "VND"],
         LAMBDA current_sol : VNDLoop(current_sol, 1, 0, m))

\* solutionToResult (the time is left out).
solutionToResult(instance_name, s) ==
    [instance_name |-> instance_name, method |-> s.method_name,
     profit |-> s.total_profit, weight |-> s.total_weight,
     n_items |-> Cardinality(s.selected_items), feasible |-> s.is_feasible]

\* GreedyConstructive::constructAll
constructAll ==
    <<construct("MAX_PROFIT"), construct("MIN_WEIGHT"),
      construct("MAX_PROFIT_WEIGHT"), construct("MIN_CONFLICTS")>>

\* The records processInstance returns for the loaded instance, GRASP being run
\* for the given number of iterations.
InstanceResults(instance_name, iterations) ==
    Bind(solve(SeedRng(DefaultSeed), iterations, GRASP_ALPHA).sol, LAMBDA grasp_sol :
        [i \in 1..4 |-> solutionToResult(instance_name, constructAll[i])]
        \o <<solutionToResult(instance_name, grasp_sol),
              solutionToResult(instance_name,
                               HillClimbingSolve(grasp_sol, HILL_CLIMBING_MAX_ITER)),
              solutionToResult(instance_name, VNDSolve(grasp_sol, VND_MAX_ITER))>>)

\* main, no mode given or an unknown one: the usage is printed.
Usage ==
    /\ pc = "main"
    /\ mode \notin {"single", "batch"}
    /\ exit_status' = "EXIT_FAILURE"
    /\ pc' = "exited"
    /\ UNCHANGED <<inst_vars, sol_vars, greedy_vars, grasp_vars, ls_vars,
                   mode, inputs, cursor, all_results>>

\* processInstance is entered for the next input: a fresh DCKPInstance.
OpenInstance ==
    /\ pc = "main"
    /\ mode \in {"single", "batch"}
    /\ cursor < Len(inputs)
    /\ cursor' = cursor + 1
    /\ file' = inputs[cursor + 1]
    /\ n_items' = 0
    /\ capacity' = 0
    /\ profits' = <<>>
    /\ weights' = <<>>
    /\ conflicts' = <<>>
    /\ conflict_graph' = <<>>
    /\ load_result' = "none"
    /\ pc' = "start"
    /\ UNCHANGED <<sol_vars, greedy_vars, grasp_vars, ls_vars,
                   mode, inputs, all_results, exit_status>>

\* processInstance after readFromFile has returned false: no record.
ReturnNoResults ==
    /\ pc = "failed"
    /\ pc' = "main"
    /\ UNCHANGED <<main_vars, inst_vars, sol_vars, greedy_vars, grasp_vars, ls_vars>>

\* processInstance after readFromFile has returned true: the seven records.
RunHeuristics(iterations) ==
    /\ pc = "loaded"
    /\ all_results' = all_results \o InstanceResults(cursor, iterations)
    /\ pc' = "main"
    /\ UNCHANGED <<inst_vars, sol_vars, greedy_vars, grasp_vars, ls_vars,
                   mode, inputs, cursor, exit_status>>

\* main after the file, or the last file of the directory, has been processed.
Return ==
    /\ pc = "main"
    /\ mode \in {"single", "batch"}
    /\ cursor = Len(inputs)
    /\ exit_status' = "EXIT_SUCCESS"
    /\ pc' = "exited"
    /\ UNCHANGED <<inst_vars, sol_vars, greedy_vars, grasp_vars, ls_vars,
                   mode, inputs, cursor, all_results>>

\* The files of the driver's specification: an absent file, rejected headers, a
\* file with no conflict pair and the files with one.
MainFiles ==
    {NoFile}
    \cup FilesWith({0, MaxItems}, {0, MaxCapacity},
                   {[i \in 1..MaxItems |-> i % (MaxProfit + 1)]},
                   {[i \in 1..MaxItems |-> IF i = 1 THEN MaxWeight ELSE 1]}, 0)
    \cup InstanceFiles(MaxItems, {MaxCapacity},
                       {[i \in 1..MaxItems |-> i % (MaxProfit + 1)]},
                       {[i \in 1..MaxItems |-> IF i = 1 THEN MaxWeight ELSE 1]}, 1)

\* main is entered in single mode on one file, in batch mode on a directory of
\* at most two files, or with another mode.
InitMain ==
    /\ mode \in {"single", "batch", "help"}
    /\ inputs \in SeqsUpTo(MainFiles, 2)
    /\ mode = "single" => Len(inputs) = 1
    /\ mode = "help" => inputs = <<>>
    /\ cursor = 0
    /\ all_results = <<>>
    /\ exit_status = "none"
    /\ file = NoFile
    /\ InitInstance
    /\ pc = "main"
    /\ NoSolution
    /\ tie_order = Ascending
    /\ NoEngine

NextMain ==
    \/ Usage
    \/ OpenInstance
    \/ ReadAbsent
    \/ ReadInvalid
    \/ ReadOk
    \/ ReturnNoResults
    \/ \E iterations \in 1..MaxIterations : RunHeuristics(iterations)
    \/ Return

SpecMain == InitMain /\ [][NextMain]_vars

\* ---------------------------------------------------- claims on the loader

\* The pair {i, j} occurs in the file, in either order (1-based there).
EdgeRead(i, j) ==
    \E k \in 1..Len(file.pairs) :
        file.pairs[k] = <<i + 1, j + 1>> \/ file.pairs[k] = <<j + 1, i + 1>>

\* C8: after a successful load the conflict graph is symmetric, every
\* adjacency list is strictly ascending (sorted, no duplicates), and
\* hasConflict is symmetric and true exactly for the pairs read from the file.
C8_GraphSymmetricSortedExact ==
    load_result = "true" =>
        /\ \A i \in Items : \A j \in Items :
              (j \in Range(conflict_graph[i])) <=> (i \in Range(conflict_graph[j]))
        /\ \A i \in Items : \A k \in 1..(Len(conflict_graph[i]) - 1) :
              conflict_graph[i][k] < conflict_graph[i][k + 1]
        /\ \A i \in Items : \A j \in Items :
              /\ hasConflict(i, j) = hasConflict(j, i)
              /\ hasConflict(i, j) <=> EdgeRead(i, j)

\* A load of a file that names the same pair twice, once in each order.
C8_Witness ==
    /\ load_result = "true"
    /\ Len(file.pairs) = 2
    /\ file.pairs[1][1] # file.pairs[1][2]
    /\ file.pairs[2] = <<file.pairs[1][2], file.pairs[1][1]>>
    /\ hasConflict(file.pairs[1][1] - 1, file.pairs[1][2] - 1)

\* C9: after a successful load no item is on its own adjacency list,
\* hasConflict(i, i) is false, and getConflictDegree(i) counts the items
\* other than i that were read in a pair with i.
C9_NoSelfConflict ==
    load_result = "true" =>
        \A i \in Items :
            /\ i \notin Range(conflict_graph[i])
            /\ ~hasConflict(i, i)
            /\ getConflictDegree(i) = Cardinality({j \in Items \ {i} : EdgeRead(i, j)})

\* -------------------------------------------------- claims on the Solution

\* C4: after any sequence of addItem(i, profits[i], weights[i]) and
\* removeItem(i, profits[i], weights[i]) applied to an empty Solution,
\* total_profit and total_weight are the sums of the profits and weights of
\* the selected items.
C4_AggregatesAreSums ==
    start_sol = Solution =>
        /\ sol.total_profit = Sum(profits, sol.selected_items)
        /\ sol.total_weight = Sum(weights, sol.selected_items)

\* A sequence from the empty Solution that ends with the add of an item already
\* present, after the remove of an absent one, with something selected.
C4_Witness ==
    /\ start_sol = Solution
    /\ n_calls = MaxCalls
    /\ Len(hist) = 2
    /\ hist[1].op = "remove" /\ hist[1].item \notin hist[1].before.selected_items
    /\ hist[2].op = "add" /\ hist[2].item \in hist[2].before.selected_items
    /\ sol.total_profit > 0

\* C5: addItem(i) then removeItem(i), for i absent at first, restores the
\* selected set and both aggregates; removeItem of an absent item and addItem
\* of a present item change nothing.
C5_AddRemoveRoundTrip ==
    /\ (/\ Len(hist) = 2
        /\ hist[1].op = "add" /\ hist[2].op = "remove"
        /\ hist[1].item = hist[2].item
        /\ hist[1].item \notin hist[1].before.selected_items)
       => sol = hist[1].before
    /\ \A k \in 1..Len(hist) :
         LET after == IF k = Len(hist) THEN sol ELSE hist[k + 1].before
         IN  /\ (hist[k].op = "remove" /\ hist[k].item \notin hist[k].before.selected_items)
                => after = hist[k].before
             /\ (hist[k].op = "add" /\ hist[k].item \in hist[k].before.selected_items)
                => after = hist[k].before

\* An add of an absent item with a positive profit and weight, to a Solution
\* whose aggregates are off, followed by its remove.
C5_Witness ==
    /\ Len(hist) = 2
    /\ hist[1].op = "add" /\ hist[2].op = "remove"
    /\ hist[1].item = hist[2].item
    /\ hist[1].item \notin hist[1].before.selected_items
    /\ profits[hist[1].item] > 0 /\ weights[hist[1].item] > 0
    /\ hist[1].before.total_weight # Sum(weights, hist[1].before.selected_items)
    /\ hist[2].before # hist[1].before

\* ------------------------------------------------- claims on the Validator

\* C3: validate returns true exactly when the weight recomputed from the
\* selected items is within the capacity and no pair of selected items is in
\* conflict, whatever total_weight the Solution carried; is_feasible is the
\* returned boolean and the aggregates are the recomputed sums afterwards.
C3_ValidateIsFullAudit ==
    \A k \in 1..Len(hist) :
        hist[k].op = "validate" =>
            LET b == hist[k].before
                after == IF k = Len(hist) THEN sol ELSE hist[k + 1].before
            IN  /\ hist[k].ret <=>
                      (/\ Sum(weights, b.selected_items) <= capacity
                       /\ ~PairConflict(b.selected_items))
                /\ after.is_feasible = hist[k].ret
                /\ after.total_profit = Sum(profits, b.selected_items)
                /\ after.total_weight = Sum(weights, b.selected_items)

\* ------------------------------------------------ claims on the constructors

\* No two distinct items of S are in conflict and the weights of S fit.
Feasible(S) ==
    /\ Sum(weights, S) <= capacity
    /\ \A a \in S : \A b \in S : a # b => ~hasConflict(a, b)

\* The cached aggregates of s are the sums over its selected items.
Consistent(s) ==
    /\ s.total_profit = Sum(profits, s.selected_items)
    /\ s.total_weight = Sum(weights, s.selected_items)

\* C1: on an instance with non-negative profits and weights and a positive
\* capacity, the Solution construct returns (each strategy) and the Solution
\* solve returns (iterations >= 1, 0 <= alpha <= 1) fits the capacity, holds no
\* two items in conflict, passes validate and carries aggregates that are the
\* sums over its selected items.
C1_ConstructorsFeasible ==
    pc = "constructed" =>
        /\ sol.selected_items \subseteq Items
        /\ sol.total_weight <= capacity
        /\ Feasible(sol.selected_items)
        /\ sol.is_feasible
        /\ validValue(sol)
        /\ Consistent(sol)

\* A GRASP run that selected two items on an instance with a conflict pair
\* whose items do not all fit.
C1_Witness ==
    /\ pc = "constructed"
    /\ runs # <<>>
    /\ Cardinality(sol.selected_items) >= 2
    /\ Sum(weights, Items) > capacity
    /\ conflicts # <<>>

\* C7: the greedy constructor visits the items in descending score and, among
\* items of equal score, in ascending index.
C7_GreedyOrderTiesAscending ==
    order # <<>> =>
        \A a \in 1..Len(order) : \A b \in 1..Len(order) :
            a < b =>
                /\ ~ScoreGreater(GreedyCalculateScore(order[b], strategy_),
                                 GreedyCalculateScore(order[a], strategy_))
                /\ (~ScoreGreater(GreedyCalculateScore(order[a], strategy_),
                                  GreedyCalculateScore(order[b], strategy_))
                        => order[a] < order[b])

\* ------------------------------------------------------- claims on the engine

\* C6: two runs of solve on the same instance with the same seed (a fresh
\* engine, or the same engine after setSeed), the same alpha and the same
\* iteration count return the same selected set and the same profit.
C6_GraspDeterministic ==
    \A i \in 1..Len(runs) : \A j \in 1..Len(runs) :
        (/\ runs[i].seed # -1
         /\ runs[i].seed = runs[j].seed
         /\ runs[i].alpha = runs[j].alpha
         /\ runs[i].iterations = runs[j].iterations)
        => /\ runs[i].result.selected_items = runs[j].result.selected_items
           /\ runs[i].result.total_profit = runs[j].result.total_profit

\* Two runs from the same seed with alpha = 1, the second after setSeed, on an
\* instance where the draws decide between conflicting items.
C6_Witness ==
    /\ Len(runs) = 2
    /\ runs[1].seed # -1
    /\ runs[1].seed = runs[2].seed
    /\ runs[1].alpha = <<AlphaDen, AlphaDen>>
    /\ runs[2].alpha = runs[1].alpha
    /\ runs[1].iterations = runs[2].iterations
    /\ runs[1].result.selected_items # {}
    /\ conflicts # <<>>

\* --------------------------------------------- claims on the local searches

\* The local search at hand has a current Solution.
Searching == pc \in {"hc", "hc_done", "vnd", "vnd_done"}

\* C2: started from a feasible Solution whose aggregates are the sums over its
\* selected items, every current Solution of HillClimbing::solve and VND::solve,
\* the returned one included, is feasible, carries aggregates that are the sums
\* over its selected items, and passes validate.
C2_SearchKeepsFeasible ==
    (/\ Searching
     /\ Feasible(start_sol.selected_items)
     /\ Consistent(start_sol))
    => /\ Feasible(sol.selected_items)
       /\ sol.total_weight <= capacity
       /\ Consistent(sol)
       /\ validValue(sol)

\* VND has returned after two improvements from a feasible, consistent start on
\* an instance with a conflict pair.
C2_Witness ==
    /\ pc = "vnd_done"
    /\ improvements >= 2
    /\ Feasible(start_sol.selected_items)
    /\ Consistent(start_sol)
    /\ conflicts # <<>>

\* ------------------------------------------------ claims on every producer

\* A constructor or a local search has returned sol.
Produced == pc \in {"constructed", "hc_done", "vnd_done"}

\* C10: every index selected by a constructor or a local search is in
\* [0, n_items).
C10_SelectedInRange == Produced => sol.selected_items \subseteq Items

\* VND has improved a GRASP result.
C10_Witness ==
    /\ pc = "vnd_done"
    /\ improvements > 0
    /\ runs # <<>>
    /\ sol.selected_items # {}

\* C10 as stated: the selected set is a strict subset of [0, n_items), at least
\* one item is left unselected.
C10_SelectedStrictSubset ==
    Produced => (sol.selected_items \subseteq Items /\ sol.selected_items # Items)

\* ------------------------------------------------- claims on Hill Climbing

\* Swap(1-1) of item_out for item_in is admitted from s: the weight s carries,
\* less item_out plus item_in, fits, and item_in conflicts with no other
\* selected item.
SwapAdmitted(s, item_out, item_in) ==
    /\ item_out \in s.selected_items
    /\ item_in \in Items \ s.selected_items
    /\ s.total_weight - weights[item_out] + weights[item_in] <= capacity
    /\ \A r \in s.selected_items \ {item_out} : ~hasConflict(item_in, r)

\* s has a strictly improving admitted Swap(1-1).
HasImprovingSwap(s) ==
    \E item_out \in Items : \E item_in \in Items :
        SwapAdmitted(s, item_out, item_in) /\ profits[item_in] > profits[item_out]

\* C11: started from a Solution with no strictly improving admitted 1-1 swap,
\* HillClimbing::solve makes no move and no improvement, whatever
\* max_iterations, and its Solution is the initial one but for method_name.
C11_LocalOptimumNoMoves ==
    (pc \in {"hc", "hc_done"} /\ ~HasImprovingSwap(start_sol))
    => /\ iteration = 0
       /\ improvements = 0
       /\ sol = [start_sol EXCEPT !.method_name = "HillClimbing"]

\* HillClimbing::solve has returned, with more than one iteration allowed, from
\* a non-empty local optimum that a more profitable item could not enter.
C11_Witness ==
    /\ pc = "hc_done"
    /\ max_iterations > 1
    /\ ~HasImprovingSwap(start_sol)
    /\ \E item_out \in start_sol.selected_items : \E item_in \in Items \ start_sol.selected_items :
           profits[item_in] > profits[item_out]

\* ------------------------------------------------ claims on scenario 4

\* The state is one of scenario 4: its instance, the start {0, 1}.
InScenario4 ==
    /\ file = Scenario4
    /\ start_sol.selected_items = {0, 1}

\* C12: on the instance of scenario 4, from the start {0, 1} of profit 12, the
\* profit VND::solve returns is at least the profit HillClimbing::solve returns
\* from the same start.
C12_VndAtLeastHcOnScenario4 ==
    (InScenario4 /\ pc = "vnd_done" /\ hc_sol.method_name = "HillClimbing")
    => sol.total_profit >= hc_sol.total_profit

\* Both searches have returned on scenario 4 from the start of profit 12, VND
\* after passing through its three neighbourhoods.
C12_Witness ==
    /\ InScenario4
    /\ start_sol.total_profit = 12
    /\ pc = "vnd_done"
    /\ hc_sol.method_name = "HillClimbing"
    /\ vnd_k > 3

\* ------------------------------------------------------ claims on the driver

\* The file can be loaded: it opens and its header holds positive sizes.
Loadable(f) == f.exists /\ f.n > 0 /\ f.cap > 0

\* readFromFile has returned, and false exactly for a file that cannot be loaded.
ReadReturnsFalseOnFailure ==
    pc \in {"failed", "loaded"} =>
        /\ load_result = (IF Loadable(file) THEN "true" ELSE "false")
        /\ pc = (IF Loadable(file) THEN "loaded" ELSE "failed")

\* No record names an input that cannot be loaded.
NoRecordOfFailedLoad ==
    \A i \in 1..Len(all_results) : Loadable(inputs[all_results[i].instance_name])

\* Batch mode ends with every input visited and records of every loadable one.
BatchSkipsAndContinues ==
    (pc = "exited" /\ mode = "batch") =>
        /\ cursor = Len(inputs)
        /\ \A n \in 1..Len(inputs) :
              Loadable(inputs[n]) =>
                  \E i \in 1..Len(all_results) : all_results[i].instance_name = n

\* Single mode on a file that cannot be loaded ends with an error status.
SingleReturnsError ==
    (pc = "exited" /\ mode = "single" /\ ~Loadable(inputs[1])) =>
        exit_status = "EXIT_FAILURE"

\* C13: when an instance cannot be loaded (file absent, n_items <= 0 or
\* capacity <= 0) readFromFile returns false and no record is produced for it;
\* batch mode skips it and goes on; single mode returns an error status.
C13_LoadFailureHandled ==
    /\ ReadReturnsFalseOnFailure
    /\ NoRecordOfFailedLoad
    /\ BatchSkipsAndContinues
    /\ SingleReturnsError

\* ------------------------------------------- claims on processInstanceEtapa2

\* The Solution GRASP returned to the driver.
GraspSol == runs[Len(runs)].result

\* C14: the local searches leave the Solution they are given as it was, so in
\* the driver VND starts from the Solution GRASP returned, whatever Hill
\* Climbing made of it.
C14_SearchesKeepInitial ==
    (Searching /\ runs # <<>>) =>
        /\ start_sol = GraspSol
        /\ (pc = "vnd" /\ iteration = 0) => sol = [GraspSol EXCEPT !.method_name = "VND"]

\* VND starts after Hill Climbing has moved away from the GRASP Solution.
C14_Witness ==
    /\ pc = "vnd"
    /\ iteration = 0
    /\ runs # <<>>
    /\ hc_sol.method_name = "HillClimbing"
    /\ hc_sol.selected_items # start_sol.selected_items

\* ----------------------------------------------------- the candidate list

\* buildRCL has returned: current_solution is its argument, rcl its result.
Built == pc = "construct_done" \/ (pc = "construct" /\ selected_item # -1)

\* The feasible candidates of the partial Solution s: the unselected items
\* that pass both checkCapacity and checkConflicts against s.
FeasibleCandidates(s) ==
    {i \in Items \ s.selected_items :
        /\ checkCapacity(s.total_weight, weights[i])
        /\ checkConflicts(i, s.selected_items)}

\* The feasible candidates of s no other feasible candidate outscores.
MaxScoreCandidates(s) ==
    {i \in FeasibleCandidates(s) :
        \A j \in FeasibleCandidates(s) :
            ~DoubleGreater(GraspCalculateScore(j, s), GraspCalculateScore(i, s))}

\* The feasible candidates of s that outscore no other feasible candidate.
MinScoreCandidates(s) ==
    {i \in FeasibleCandidates(s) :
        \A j \in FeasibleCandidates(s) :
            ~DoubleGreater(GraspCalculateScore(i, s), GraspCalculateScore(j, s))}

\* tau = s_max - alpha * (s_max - s_min) over the feasible candidates of s,
\* which are not empty.
Tau(s, alpha) ==
    Threshold(GraspCalculateScore(CHOOSE i \in MaxScoreCandidates(s) : TRUE, s),
              GraspCalculateScore(CHOOSE i \in MinScoreCandidates(s) : TRUE, s),
              alpha)

\* C15: for alpha in [0, 1], the list buildRCL returns is empty exactly when
\* no unselected item passes both checkCapacity and checkConflicts against the
\* partial solution; otherwise it holds, once each, exactly the feasible
\* candidates whose score is not below tau = s_max - alpha * (s_max - s_min),
\* every candidate of maximum score among them.
C15_RclIsThresholdSet ==
    Built =>
        /\ (rcl = <<>>) <=> (FeasibleCandidates(current_solution) = {})
        /\ Len(rcl) = Cardinality(Range(rcl))
        /\ FeasibleCandidates(current_solution) # {} =>
               /\ Range(rcl) =
                      {c \in FeasibleCandidates(current_solution) :
                          ~DoubleGreater(Tau(current_solution, alpha_arg),
                                         GraspCalculateScore(c, current_solution))}
               /\ MaxScoreCandidates(current_solution) \subseteq Range(rcl)

\* A list was built with alpha = 1/2 that keeps some feasible candidates and
\* leaves others out.
C15_Witness ==
    /\ Built
    /\ alpha_arg[1] * 2 = alpha_arg[2]
    /\ rcl # <<>>
    /\ Range(rcl) # FeasibleCandidates(current_solution)

\* C16: with alpha = 0, at every step of a construction the list is exactly
\* the set of feasible candidates of maximum score, and the item added is one
\* of them.
C16_AlphaZeroPicksMaximum ==
    (Built /\ alpha_arg[1] = 0) =>
        /\ Range(rcl) = MaxScoreCandidates(current_solution)
        /\ selected_item # -1 =>
               /\ selected_item \in MaxScoreCandidates(current_solution)
               /\ sol.selected_items = current_solution.selected_items \cup {selected_item}

\* With alpha = 0 an item was added while a feasible candidate of smaller
\* score was left out of the list.
C16_Witness ==
    /\ Built
    /\ alpha_arg[1] = 0
    /\ selected_item # -1
    /\ MaxScoreCandidates(current_solution) # FeasibleCandidates(current_solution)

\* C17: with alpha = 1, at every step of a construction the list is the full
\* set of feasible candidates, the one of minimum score included.
C17_AlphaOneKeepsAll ==
    (Built /\ alpha_arg[1] = alpha_arg[2]) =>
        Range(rcl) = FeasibleCandidates(current_solution)

\* ---------------------------------------------------------- the multi-start

\* solve has just returned to the driver, which made the engine with a seed.
Solved == pc = "constructed" /\ runs # <<>>

\* The feasible ones among the iteration results.
FeasibleIterations(currents) == {k \in 1..Len(currents) : currents[k].is_feasible}

\* Iteration k is the first feasible one of maximum profit.
FirstOfMaximum(currents, k) ==
    /\ k \in FeasibleIterations(currents)
    /\ \A j \in FeasibleIterations(currents) :
           /\ currents[j].total_profit <= currents[k].total_profit
           /\ j < k => currents[j].total_profit < currents[k].total_profit

\* C18: solve with iterations >= 1 returns the Solution built by the first
\* iteration whose total_profit is the maximum over the feasible iteration
\* results: an iteration of equal profit never replaces the retained best.
C18_SolveKeepsFirstBest ==
    Solved =>
        \A run \in {runs[Len(runs)]} :
        \A currents \in {IterationResults(0, run.iterations, SeedRng(run.seed), run.alpha)} :
            FeasibleIterations(currents) # {} =>
                \E k \in 1..Len(currents) :
                    /\ FirstOfMaximum(currents, k)
                    /\ run.result = [currents[k] EXCEPT
                                        !.method_name = GraspName(run.iterations, run.alpha)]
                    /\ sol = run.result

\* Two iterations built different feasible Solutions of the same, maximum,
\* profit, and solve returned the first.
C18_Witness ==
    /\ Solved
    /\ \E run \in {runs[Len(runs)]} :
       \E currents \in {IterationResults(0, run.iterations, SeedRng(run.seed), run.alpha)} :
           /\ Len(currents) >= 2
           /\ FirstOfMaximum(currents, 1)
           /\ currents[2].is_feasible
           /\ currents[2].total_profit = currents[1].total_profit
           /\ currents[2].selected_items # currents[1].selected_items
           /\ sol.selected_items = currents[1].selected_items

\* ------------------------------------------------------- Hill Climbing moves

\* A step of the loop of HillClimbing::solve that replaces the current Solution.
HCMoves == pc = "hc" /\ pc' = "hc" /\ sol' # sol

VNDNeighborhood(current, type) ==
    CASE type = 1 -> generateAddDropNeighborhood(current)
      [] type = 2 -> generateSwap11Neighborhood(current)
      [] type = 3 -> generateSwap21Neighborhood(current)
      [] OTHER -> <<>>

\* A step of the loop of VND::solve that replaces the current Solution.
VNDMoves == pc = "vnd" /\ pc' = "vnd" /\ sol' # sol

\* chosen is a neighbour of maximum total_profit, above the current one, and
\* no neighbour before it in the list has that profit.
FirstOfBest(neighborhood, current, chosen) ==
    \E k \in 1..Len(neighborhood) :
        /\ neighborhood[k] = chosen
        /\ neighborhood[k].total_profit > current.total_profit
        /\ \A m \in 1..Len(neighborhood) :
               /\ neighborhood[m].total_profit <= neighborhood[k].total_profit
               /\ (m < k => neighborhood[m].total_profit < neighborhood[k].total_profit)

\* The item a swap neighbour lost, and the item it gained.
ItemOut(current, neighbor) ==
    CHOOSE i \in current.selected_items : i \notin neighbor.selected_items

ItemIn(current, neighbor) ==
    CHOOSE j \in neighbor.selected_items : j \notin current.selected_items

\* The swap neighbours come with i ascending over the selected items and, for
\* each i, j ascending over the items that are not selected.
SwapOrdered(current, neighborhood) ==
    /\ \A k \in 1..Len(neighborhood) :
           /\ Cardinality(current.selected_items \ neighborhood[k].selected_items) = 1
           /\ Cardinality(neighborhood[k].selected_items \ current.selected_items) = 1
    /\ \A k \in 1..(Len(neighborhood) - 1) :
           LET i1 == ItemOut(current, neighborhood[k])
               i2 == ItemOut(current, neighborhood[k + 1])
               j1 == ItemIn(current, neighborhood[k])
               j2 == ItemIn(current, neighborhood[k + 1])
           IN  i1 < i2 \/ (i1 = i2 /\ j1 < j2)

\* C20: in Hill Climbing and in every neighbourhood of VND the neighbour moved
\* to has the maximum total_profit of the generated neighbourhood, strictly
\* above the current one, and is the first of that profit in enumeration
\* order; the swap neighbours are enumerated with i ascending over the
\* selected items and, for each i, j ascending over the non-selected ones.
C20_BestImprovementFirstOnTies ==
    [][/\ HCMoves =>
            \E neighborhood \in {generateSwapNeighborhood(sol)} :
                /\ FirstOfBest(neighborhood, sol, sol')
                /\ SwapOrdered(sol, neighborhood)
       /\ VNDMoves =>
            \E neighborhood \in {VNDNeighborhood(sol, vnd_k)} :
                /\ FirstOfBest(neighborhood, sol, sol')
                /\ (vnd_k = 2 => SwapOrdered(sol, neighborhood))]_vars

\* Hill Climbing has made its first move from a Solution with two different
\* neighbours of the maximum profit, and holds the earlier of them.
C20_Witness ==
    /\ pc = "hc"
    /\ improvements = 1
    /\ \E neighborhood \in {generateSwapNeighborhood([start_sol EXCEPT !.method_name = "HillClimbing"])} :
           \E a, b \in 1..Len(neighborhood) :
               /\ a < b
               /\ neighborhood[a] = sol
               /\ neighborhood[b] # sol
               /\ neighborhood[b].total_profit = sol.total_profit
               /\ ItemOut(start_sol, neighborhood[a]) = ItemOut(start_sol, neighborhood[b])

\* ------------------------------------------------- the Swap(1-1) neighbourhood

\* A local search is in its loop, with a current Solution.
InLoop == pc \in {"hc", "vnd"}

\* The pairs (i, j), i selected and j not, whose swap is admitted from s.
AdmittedSwaps(s) ==
    {pr \in s.selected_items \X (Items \ s.selected_items) : SwapAdmitted(s, pr[1], pr[2])}

\* C21: the Swap(1-1) neighbourhood of the current Solution holds the neighbour
\* (remove i, add j), i selected and j not, exactly when total_weight -
\* weights[i] + weights[j] <= capacity and j conflicts with no selected item but
\* i, each such neighbour once; and VND::generateSwap11Neighborhood and
\* HillClimbing::generateSwapNeighborhood return the same sequence.
C21_Swap11Neighbourhood ==
    InLoop =>
        \E neighborhood \in {generateSwap11Neighborhood(sol)} :
            /\ neighborhood = generateSwapNeighborhood(sol)
            /\ Len(neighborhood) = Cardinality(AdmittedSwaps(sol))
            /\ \A i \in sol.selected_items : \A j \in Items \ sol.selected_items :
                   (\E k \in 1..Len(neighborhood) : neighborhood[k] = Swap11Neighbor(sol, i, j))
                   <=> SwapAdmitted(sol, i, j)

\* VND is about to explore N2 on a Solution from which one swap is admitted,
\* one is refused for the weight alone and one for a conflict alone.
C21_Witness ==
    /\ pc = "vnd"
    /\ vnd_k = 2
    /\ AdmittedSwaps(sol) # {}
    /\ \E i \in sol.selected_items : \E j \in Items \ sol.selected_items :
           /\ sol.total_weight - weights[i] + weights[j] > capacity
           /\ ~ConflictWithRemaining(sol, j, {i})
    /\ \E i \in sol.selected_items : \E j \in Items \ sol.selected_items :
           /\ sol.total_weight - weights[i] + weights[j] <= capacity
           /\ ConflictWithRemaining(sol, j, {i})

\* ------------------------------------------------- the Swap(2-1) neighbourhood

\* The three tests of a 2-1 swap of i1 and i2 for j.
Swap21Gains(i1, i2, j) == profits[j] > profits[i1] + profits[i2]

Swap21Fits(s, i1, i2, j) == s.total_weight - weights[i1] - weights[i2] + weights[j] <= capacity

Swap21Compatible(s, i1, i2, j) == \A r \in s.selected_items \ {i1, i2} : ~hasConflict(j, r)

\* The triples (i1, i2, j), i1 < i2 selected and j not, whose swap is admitted.
AdmittedSwaps21(s) ==
    {t \in s.selected_items \X s.selected_items \X (Items \ s.selected_items) :
        /\ t[1] < t[2]
        /\ Swap21Gains(t[1], t[2], t[3])
        /\ Swap21Fits(s, t[1], t[2], t[3])
        /\ Swap21Compatible(s, t[1], t[2], t[3])}

\* C22: the Swap(2-1) neighbourhood of VND is empty when fewer than two items
\* are selected; otherwise it holds the neighbour (remove i1 and i2, add j)
\* exactly when profits[j] > profits[i1] + profits[i2], total_weight -
\* weights[i1] - weights[i2] + weights[j] <= capacity and j conflicts with no
\* selected item but i1 and i2; every neighbour has a total_profit strictly
\* above the current one.
C22_Swap21Neighbourhood ==
    pc = "vnd" =>
        \E neighborhood \in {generateSwap21Neighborhood(sol)} :
            /\ Cardinality(sol.selected_items) < 2 => neighborhood = <<>>
            /\ Len(neighborhood) = Cardinality(AdmittedSwaps21(sol))
            /\ \A i1 \in sol.selected_items : \A i2 \in sol.selected_items :
                 \A j \in Items \ sol.selected_items :
                   i1 < i2 =>
                     ((\E k \in 1..Len(neighborhood) :
                           neighborhood[k] = Swap21Neighbor(sol, i1, i2, j))
                      <=> <<i1, i2, j>> \in AdmittedSwaps21(sol))
            /\ \A k \in 1..Len(neighborhood) :
                   neighborhood[k].total_profit > sol.total_profit

\* VND is about to explore N3 where one 2-1 swap is admitted and another is
\* refused for the profit alone.
C22_Witness ==
    /\ pc = "vnd"
    /\ vnd_k = 3
    /\ AdmittedSwaps21(sol) # {}
    /\ \E i1 \in sol.selected_items : \E i2 \in sol.selected_items :
         \E j \in Items \ sol.selected_items :
           /\ i1 < i2
           /\ ~Swap21Gains(i1, i2, j)
           /\ Swap21Fits(sol, i1, i2, j)
           /\ Swap21Compatible(sol, i1, i2, j)

\* ------------------------------------------------------ the descent of VND

\* Neighbourhood type of s holds a neighbour of greater total_profit.
Improvable(s, type) ==
    \E k \in 1..Len(VNDNeighborhood(s, type)) :
        VNDNeighborhood(s, type)[k].total_profit > s.total_profit

\* One exploration of the loop of VND::solve.
VNDExplores == pc = "vnd" /\ pc' = "vnd"

\* C23: in VND::solve k starts at 1 and stays within 1..4; an exploration that
\* finds an improvement moves to a neighbour of the explored neighbourhood and
\* sets k to 1; one that finds none leaves the Solution alone and raises k by
\* one; so with k = 2 N1 has just failed, and with k = 3 N1 and N2 have, on the
\* Solution that is current.
C23_NeighbourhoodOrder ==
    /\ [][(pc # "vnd" /\ pc' = "vnd") => vnd_k' = 1]_vars
    /\ [](pc = "vnd" =>
             /\ vnd_k \in 1..4
             /\ \A type \in 1..3 : type < vnd_k => ~Improvable(sol, type))
    /\ [][VNDExplores =>
             IF Improvable(sol, vnd_k)
             THEN /\ sol' \in Range(VNDNeighborhood(sol, vnd_k))
                  /\ sol'.total_profit > sol.total_profit
                  /\ vnd_k' = 1
             ELSE /\ sol' = sol
                  /\ vnd_k' = vnd_k + 1]_vars

\* VND has moved, and since then N1 and N2 have failed: N3 is next.
C23_Witness ==
    /\ pc = "vnd"
    /\ vnd_k = 3
    /\ improvements = 1
    /\ iteration = 3
    /\ sol.selected_items # start_sol.selected_items

\* C24: when VND::solve has left its loop with k > 3, its Solution has no
\* neighbour of greater total_profit in N1, N2 or N3; a Solution that has one
\* is returned only with the iteration counter at max_iterations.
C24_VndLocalOptimum ==
    pc = "vnd_done" =>
        /\ vnd_k > 3 => \A type \in 1..3 : ~Improvable(sol, type)
        /\ (\E type \in 1..3 : Improvable(sol, type)) => iteration = max_iterations

\* VND has moved and then seen all three neighbourhoods fail before the
\* iteration limit.
C24_Witness ==
    /\ pc = "vnd_done"
    /\ vnd_k > 3
    /\ improvements >= 1
    /\ sol.total_profit > start_sol.total_profit

\* ---------------------------------------------------------------- termination

\* The sum of all profits of the instance.
TotalProfit == Sum(profits, Items)

\* C25: VND::solve and HillClimbing::solve terminate. Every exploration of VND
\* adds one to its counter, which never exceeds max_iterations; and whatever
\* max_iterations, the moves of either search are at most the sum of all
\* profits, because each raises total_profit, VND makes at most three
\* explorations in a row without a move, and the search reaches its return.
C25_SearchesTerminate ==
    /\ [][VNDExplores => iteration' = iteration + 1]_vars
    /\ [](pc \in {"hc", "vnd"} =>
             /\ iteration <= max_iterations
             /\ improvements <= TotalProfit
             /\ improvements <= sol.total_profit - start_sol.total_profit)
    /\ [](pc = "vnd" => /\ vnd_k - 1 <= 3
                        /\ iteration <= 3 * improvements + improvements + (vnd_k - 1))
    /\ (pc \in {"hc", "vnd"}) ~> (pc \in {"hc_done", "vnd_done"})

\* VND has returned after two moves, far below an iteration limit it could
\* not reach.
C25_Witness ==
    /\ pc = "vnd_done"
    /\ max_iterations = LargeIterations
    /\ improvements >= 2
    /\ iteration < max_iterations

\* ------------------------------------------------- the profit/weight score

\* The place of item x in the sequence s.
Pos(s, x) == CHOOSE k \in 1..Len(s) : s[k] = x

\* The score the profit/weight strategy is to give: the ratio, and 1000 times
\* the profit for an item of weight zero.
ProfitWeightScore(i) ==
    IF weights[i] = 0 THEN <<1000 * profits[i], 1>> ELSE <<profits[i], weights[i]>>

\* C26: under MAX_PROFIT_WEIGHT the items are visited by descending score,
\* the score being profits[i] / weights[i] for a positive weight and the
\* finite sentinel 1000 * profits[i] for weight zero, so that of two
\* zero-weight items the one of greater profit comes first.
C26_ZeroWeightSentinel ==
    (pc = "sorted" /\ strategy_ = "MAX_PROFIT_WEIGHT") =>
        \A a \in Items : \A b \in Items :
            ScoreGreater(ProfitWeightScore(a), ProfitWeightScore(b))
                => Pos(order, a) < Pos(order, b)

\* ------------------------------------------------------ maximal constructions

\* Item i can join s: it is not selected, the weight fits and it conflicts
\* with no selected item.
CanAdd(s, i) ==
    /\ i \notin s.selected_items
    /\ Sum(weights, s.selected_items) + weights[i] <= capacity
    /\ \A r \in s.selected_items : ~hasConflict(i, r)

\* C27: with non-negative weights the Solution GreedyConstructive::construct
\* returns, and the Solution of every construction of GRASP, is maximal: no
\* unselected item can be added within the capacity and without a conflict
\* with a selected item; and the ADD part of N1 on it is empty.
C27_ConstructionsAreMaximal ==
    pc \in {"constructed", "construct_done"} =>
        /\ \A i \in Items : ~CanAdd(sol, i)
        /\ AddMoves(sol, 0) = <<>>

\* A construction of GRASP has ended with two items selected and has left out
\* the third for a conflict alone.
C27_Witness ==
    /\ pc = "construct_done"
    /\ Cardinality(sol.selected_items) = 2
    /\ \E i \in Items \ sol.selected_items :
           /\ sol.total_weight + weights[i] <= capacity
           /\ \E r \in sol.selected_items : hasConflict(i, r)

\* ------------------------------------------------------------ no DROP move

\* C28: with non-negative profits no DROP neighbour has a total_profit above
\* the current one, so every move of VND::solve adds one item (N1), swaps one
\* for one (N2) or two for one (N3), and total_profit never decreases along
\* the search.
C28_VndNeverDrops ==
    /\ [](pc = "vnd" =>
             /\ \A k \in 1..Len(DropMoves(sol, AscSeq(sol.selected_items))) :
                    DropMoves(sol, AscSeq(sol.selected_items))[k].total_profit
                        <= sol.total_profit
             /\ sol.total_profit >= start_sol.total_profit)
    /\ [][VNDMoves =>
             /\ sol'.total_profit > sol.total_profit
             /\ Cardinality(sol'.selected_items \ sol.selected_items) = 1
             /\ Cardinality(sol.selected_items \ sol'.selected_items) = vnd_k - 1]_vars

\* VND has made its first move in N1 from a Solution holding an item of profit
\* zero: the DROP neighbour of equal profit was there and an item was added.
C28_Witness ==
    /\ pc = "vnd"
    /\ improvements = 1
    /\ iteration = 1
    /\ \E i \in start_sol.selected_items : profits[i] = 0
    /\ start_sol.selected_items \subseteq sol.selected_items
    /\ Cardinality(sol.selected_items) = Cardinality(start_sol.selected_items) + 1

\* ------------------------------------------------------ validate, twice

\* C29: a second Validator::validate on the Solution the first call has left
\* returns the boolean the first call returned and leaves is_feasible,
\* total_profit, total_weight and the selected items as they were, whatever
\* the Solution the first call was given, stale aggregates included.
C29_ValidateIdempotent ==
    (/\ pc = "made"
     /\ Len(hist) = 2
     /\ hist[1].op = "validate"
     /\ hist[2].op = "validate")
    => /\ hist[2].ret = hist[1].ret
       /\ sol.is_feasible = hist[2].before.is_feasible
       /\ sol.total_profit = hist[2].before.total_profit
       /\ sol.total_weight = hist[2].before.total_weight
       /\ sol.selected_items = hist[2].before.selected_items

\* ------------------------------------------------------ the flag of the result

\* s really is feasible: the weight of its items fits and no two of them
\* conflict.
ReallyFeasible(s) ==
    /\ Sum(weights, s.selected_items) <= capacity
    /\ ~PairConflict(s.selected_items)

\* The Solution the search was given says the truth about itself: right
\* aggregates, and the flag of a validated Solution.
TruthfulStart ==
    /\ start_sol.total_profit = Sum(profits, start_sol.selected_items)
    /\ start_sol.total_weight = Sum(weights, start_sol.selected_items)
    /\ start_sol.is_feasible = ReallyFeasible(start_sol)

\* C30: the Solution HillClimbing::solve or VND::solve returns carries
\* is_feasible = true only if the weight of its items is within the capacity
\* and no two of them conflict, whether the initial Solution was feasible or
\* not (here: any initial Solution with right aggregates and a truthful flag).
C30_FlagOfResultIsTrue ==
    (pc \in {"hc_done", "vnd_done"} /\ TruthfulStart /\ sol.is_feasible)
        => ReallyFeasible(sol)

====
